---- MODULE Spec2Model ----
(***************************************************************************)
(* EPUB BookPrep: the package-document (OPF) reader and writer of          *)
(* src/epub.js, as a state machine over one parsed document and its        *)
(* archive.                                                                *)
(*                                                                         *)
(* Strings are sequences of characters, so that trim, replace, startsWith, *)
(* includes and the ISBN patterns are computed as the code computes them.  *)
(* A character is a one-character string; the characters that cannot be    *)
(* written in a string literal are named: "<TAB>" "<LF>" "<CR>" "<VT>"     *)
(* (\x0B) "<FF>" (\x0C) "<SOH>" (\x01) "<DEL>" (\x7F).  The empty sequence *)
(* stands for both the empty string and an absent (undefined) string: the  *)
(* code tests every such value by truthiness only.                         *)
(***************************************************************************)
EXTENDS Integers, Sequences, FiniteSets, TLC

\* ------------------------------------------------------------------------
\* Characters and string primitives (JavaScript String methods)
\* ------------------------------------------------------------------------

Digits == {"0", "1", "2", "3", "4", "5", "6", "7", "8", "9"}

\* The characters String.prototype.trim and the pattern \s treat as white space.
WhiteSpace == {" ", "<TAB>", "<LF>", "<CR>", "<VT>", "<FF>"}

\* The class [\x00-\x08\x0B\x0C\x0E-\x1F\x7F] of sanitizeMetadataString.
ControlChars == {"<SOH>", "<VT>", "<FF>", "<DEL>"}

UpperAlpha ==
  <<"A", "B", "C", "D", "E", "F", "G", "H", "I", "J", "K", "L", "M",
    "N", "O", "P", "Q", "R", "S", "T", "U", "V", "W", "X", "Y", "Z">>

LowerAlpha ==
  <<"a", "b", "c", "d", "e", "f", "g", "h", "i", "j", "k", "l", "m",
    "n", "o", "p", "q", "r", "s", "t", "u", "v", "w", "x", "y", "z">>

ToLowerChar(c) ==
  IF \E k \in 1..26 : UpperAlpha[k] = c
  THEN LowerAlpha[CHOOSE k \in 1..26 : UpperAlpha[k] = c]
  ELSE c

ToUpperChar(c) ==
  IF \E k \in 1..26 : LowerAlpha[k] = c
  THEN UpperAlpha[CHOOSE k \in 1..26 : LowerAlpha[k] = c]
  ELSE c

ToLowerCase(s) == [i \in 1..Len(s) |-> ToLowerChar(s[i])]

ToUpperCase(s) == [i \in 1..Len(s) |-> ToUpperChar(s[i])]

RECURSIVE TrimStart(_)
TrimStart(s) ==
  IF s # <<>> /\ Head(s) \in WhiteSpace THEN TrimStart(Tail(s)) ELSE s

RECURSIVE TrimEnd(_)
TrimEnd(s) ==
  IF s # <<>> /\ s[Len(s)] \in WhiteSpace
  THEN TrimEnd(SubSeq(s, 1, Len(s) - 1))
  ELSE s

Trim(s) == TrimEnd(TrimStart(s))

\* s.substring(0, n)
Substring0(s, n) == IF Len(s) > n THEN SubSeq(s, 1, n) ELSE s

\* s.replace(/[chars]/g, '')
RemoveChars(s, chars) == SelectSeq(s, LAMBDA c : c \notin chars)

StartsWith(s, p) == Len(s) >= Len(p) /\ SubSeq(s, 1, Len(p)) = p

Includes(s, sub) ==
  \E i \in 0..(Len(s) - Len(sub)) : SubSeq(s, i + 1, i + Len(sub)) = sub

\* ------------------------------------------------------------------------
\* String literals of the source
\* ------------------------------------------------------------------------

Str_urnIsbn == <<"u", "r", "n", ":", "i", "s", "b", "n", ":">>
Str_pubId == <<"p", "u", "b", "-", "i", "d">>
Str_creatorDash == <<"c", "r", "e", "a", "t", "o", "r", "-">>
Str_hashCreator == <<"#", "c", "r", "e", "a", "t", "o", "r">>
Str_hashCollection == <<"#", "c", "o", "l", "l", "e", "c", "t", "i", "o", "n">>
Str_collection == <<"c", "o", "l", "l", "e", "c", "t", "i", "o", "n">>
Str_series == <<"s", "e", "r", "i", "e", "s">>
Str_aut == <<"a", "u", "t">>
Str_contributor == <<"c", "o", "n", "t", "r", "i", "b", "u", "t", "o", "r">>
Str_15 == <<"1", "5">>
Str_02 == <<"0", "2">>
Str_ISBN == <<"I", "S", "B", "N">>
Str_cover == <<"c", "o", "v", "e", "r">>
Str_coverImage == <<"c", "o", "v", "e", "r", "-", "i", "m", "a", "g", "e">>
Str_imagesCoverJpg ==
  <<"i", "m", "a", "g", "e", "s", "/", "c", "o", "v", "e", "r", ".", "j", "p", "g">>
Str_imageSlash == <<"i", "m", "a", "g", "e", "/">>
Str_imageJpeg == <<"i", "m", "a", "g", "e", "/", "j", "p", "e", "g">>
Str_subtitle == <<"s", "u", "b", "t", "i", "t", "l", "e">>
Str_main == <<"m", "a", "i", "n">>
Str_3dot0 == <<"3", ".", "0">>

\* ------------------------------------------------------------------------
\* sanitizeMetadataString
\* ------------------------------------------------------------------------

DefaultMaxLength == 10000

sanitizeMetadataStringMax(value, maxLength) ==
  IF value = <<>> THEN <<>>
  ELSE RemoveChars(Substring0(Trim(value), maxLength), ControlChars)

sanitizeMetadataString(value) == sanitizeMetadataStringMax(value, DefaultMaxLength)

\* ------------------------------------------------------------------------
\* The ISBN patterns shared by extractMetadata and writeEpub
\* ------------------------------------------------------------------------

\* value.replace(/^urn:isbn:/i, '')
StripUrnIsbn(value) ==
  IF Len(value) >= Len(Str_urnIsbn)
     /\ ToLowerCase(SubSeq(value, 1, Len(Str_urnIsbn))) = Str_urnIsbn
  THEN SubSeq(value, Len(Str_urnIsbn) + 1, Len(value))
  ELSE value

\* value.replace(/[-\s]/g, '')
StripHyphensSpaces(value) == RemoveChars(value, WhiteSpace \cup {"-"})

\* /^\d{9}[\dX]$/i
MatchesISBN10(s) ==
  /\ Len(s) = 10
  /\ \A i \in 1..9 : s[i] \in Digits
  /\ s[10] \in Digits \cup {"X", "x"}

\* /^(978|979)\d{10}$/
MatchesISBN13(s) ==
  /\ Len(s) = 13
  /\ SubSeq(s, 1, 3) \in {<<"9", "7", "8">>, <<"9", "7", "9">>}
  /\ \A i \in 4..13 : s[i] \in Digits

\* ------------------------------------------------------------------------
\* normalizeLanguageCode
\* ------------------------------------------------------------------------

LANGUAGE_CODE_MAP_PAIRS ==
  { <<<<"e","n","g">>, <<"e","n">>>>, <<<<"f","r","a">>, <<"f","r">>>>, <<<<"f","r","e">>, <<"f","r">>>>,
    <<<<"d","e","u">>, <<"d","e">>>>, <<<<"g","e","r">>, <<"d","e">>>>, <<<<"s","p","a">>, <<"e","s">>>>,
    <<<<"i","t","a">>, <<"i","t">>>>, <<<<"p","o","r">>, <<"p","t">>>>, <<<<"r","u","s">>, <<"r","u">>>>,
    <<<<"j","p","n">>, <<"j","a">>>>, <<<<"z","h","o">>, <<"z","h">>>>, <<<<"c","h","i">>, <<"z","h">>>>,
    <<<<"k","o","r">>, <<"k","o">>>>, <<<<"a","r","a">>, <<"a","r">>>>, <<<<"h","i","n">>, <<"h","i">>>>,
    <<<<"b","e","n">>, <<"b","n">>>>, <<<<"p","a","n">>, <<"p","a">>>>, <<<<"j","a","v">>, <<"j","v">>>>,
    <<<<"v","i","e">>, <<"v","i">>>>, <<<<"t","u","r">>, <<"t","r">>>>, <<<<"p","o","l">>, <<"p","l">>>>,
    <<<<"u","k","r">>, <<"u","k">>>>, <<<<"r","o","n">>, <<"r","o">>>>, <<<<"r","u","m">>, <<"r","o">>>>,
    <<<<"n","l","d">>, <<"n","l">>>>, <<<<"d","u","t">>, <<"n","l">>>>, <<<<"e","l","l">>, <<"e","l">>>>,
    <<<<"g","r","e">>, <<"e","l">>>>, <<<<"c","e","s">>, <<"c","s">>>>, <<<<"c","z","e">>, <<"c","s">>>>,
    <<<<"h","u","n">>, <<"h","u">>>>, <<<<"s","w","e">>, <<"s","v">>>>, <<<<"b","u","l">>, <<"b","g">>>>,
    <<<<"d","a","n">>, <<"d","a">>>>, <<<<"f","i","n">>, <<"f","i">>>>, <<<<"n","o","r">>, <<"n","o">>>>,
    <<<<"n","o","b">>, <<"n","b">>>>, <<<<"n","n","o">>, <<"n","n">>>>, <<<<"s","l","k">>, <<"s","k">>>>,
    <<<<"s","l","o">>, <<"s","k">>>>, <<<<"h","r","v">>, <<"h","r">>>>, <<<<"s","r","p">>, <<"s","r">>>>,
    <<<<"s","l","v">>, <<"s","l">>>>, <<<<"e","s","t">>, <<"e","t">>>>, <<<<"l","a","v">>, <<"l","v">>>>,
    <<<<"l","i","t">>, <<"l","t">>>>, <<<<"c","a","t">>, <<"c","a">>>>, <<<<"e","u","s">>, <<"e","u">>>>,
    <<<<"b","a","q">>, <<"e","u">>>>, <<<<"g","l","g">>, <<"g","l">>>>, <<<<"c","y","m">>, <<"c","y">>>>,
    <<<<"w","e","l">>, <<"c","y">>>>, <<<<"g","l","e">>, <<"g","a">>>>, <<<<"i","s","l">>, <<"i","s">>>>,
    <<<<"i","c","e">>, <<"i","s">>>>, <<<<"m","l","t">>, <<"m","t">>>>, <<<<"a","f","r">>, <<"a","f">>>>,
    <<<<"s","q","i">>, <<"s","q">>>>, <<<<"a","l","b">>, <<"s","q">>>>, <<<<"b","e","l">>, <<"b","e">>>>,
    <<<<"b","o","s">>, <<"b","s">>>>, <<<<"m","k","d">>, <<"m","k">>>>, <<<<"m","a","c">>, <<"m","k">>>>,
    <<<<"h","e","b">>, <<"h","e">>>>, <<<<"y","i","d">>, <<"y","i">>>>, <<<<"i","n","d">>, <<"i","d">>>>,
    <<<<"m","s","a">>, <<"m","s">>>>, <<<<"m","a","y">>, <<"m","s">>>>, <<<<"t","h","a">>, <<"t","h">>>>,
    <<<<"f","i","l">>, <<"t","l">>>>, <<<<"t","g","l">>, <<"t","l">>>>, <<<<"f","a","s">>, <<"f","a">>>>,
    <<<<"p","e","r">>, <<"f","a">>>>, <<<<"u","r","d">>, <<"u","r">>>>, <<<<"g","u","j">>, <<"g","u">>>>,
    <<<<"m","a","r">>, <<"m","r">>>>, <<<<"t","a","m">>, <<"t","a">>>>, <<<<"t","e","l">>, <<"t","e">>>>,
    <<<<"k","a","n">>, <<"k","n">>>>, <<<<"m","a","l">>, <<"m","l">>>>, <<<<"m","y","a">>, <<"m","y">>>>,
    <<<<"b","u","r">>, <<"m","y">>>>, <<<<"k","h","m">>, <<"k","m">>>>, <<<<"l","a","o">>, <<"l","o">>>>,
    <<<<"k","a","t">>, <<"k","a">>>>, <<<<"g","e","o">>, <<"k","a">>>>, <<<<"h","y","e">>, <<"h","y">>>>,
    <<<<"a","r","m">>, <<"h","y">>>>, <<<<"a","z","e">>, <<"a","z">>>>, <<<<"k","a","z">>, <<"k","k">>>>,
    <<<<"u","z","b">>, <<"u","z">>>>, <<<<"m","o","n">>, <<"m","n">>>>, <<<<"n","e","p">>, <<"n","e">>>>,
    <<<<"s","i","n">>, <<"s","i">>>>, <<<<"a","m","h">>, <<"a","m">>>>, <<<<"s","w","a">>, <<"s","w">>>>,
    <<<<"h","a","u">>, <<"h","a">>>>, <<<<"y","o","r">>, <<"y","o">>>>, <<<<"i","b","o">>, <<"i","g">>>>,
    <<<<"z","u","l">>, <<"z","u">>>>, <<<<"x","h","o">>, <<"x","h">>>>, <<<<"l","a","t">>, <<"l","a">>>>,
    <<<<"s","a","n">>, <<"s","a">>>>, <<<<"e","p","o">>, <<"e","o">>>> }

VALID_BCP47_CODES ==
  { <<"a","a">>, <<"a","b">>, <<"a","e">>, <<"a","f">>, <<"a","k">>, <<"a","m">>, <<"a","n">>, <<"a","r">>,
    <<"a","s">>, <<"a","v">>, <<"a","y">>, <<"a","z">>, <<"b","a">>, <<"b","e">>, <<"b","g">>, <<"b","h">>,
    <<"b","i">>, <<"b","m">>, <<"b","n">>, <<"b","o">>, <<"b","r">>, <<"b","s">>, <<"c","a">>, <<"c","e">>,
    <<"c","h">>, <<"c","o">>, <<"c","r">>, <<"c","s">>, <<"c","u">>, <<"c","v">>, <<"c","y">>, <<"d","a">>,
    <<"d","e">>, <<"d","v">>, <<"d","z">>, <<"e","e">>, <<"e","l">>, <<"e","n">>, <<"e","o">>, <<"e","s">>,
    <<"e","t">>, <<"e","u">>, <<"f","a">>, <<"f","f">>, <<"f","i">>, <<"f","j">>, <<"f","o">>, <<"f","r">>,
    <<"f","y">>, <<"g","a">>, <<"g","d">>, <<"g","l">>, <<"g","n">>, <<"g","u">>, <<"g","v">>, <<"h","a">>,
    <<"h","e">>, <<"h","i">>, <<"h","o">>, <<"h","r">>, <<"h","t">>, <<"h","u">>, <<"h","y">>, <<"h","z">>,
    <<"i","a">>, <<"i","d">>, <<"i","e">>, <<"i","g">>, <<"i","i">>, <<"i","k">>, <<"i","o">>, <<"i","s">>,
    <<"i","t">>, <<"i","u">>, <<"j","a">>, <<"j","v">>, <<"k","a">>, <<"k","g">>, <<"k","i">>, <<"k","j">>,
    <<"k","k">>, <<"k","l">>, <<"k","m">>, <<"k","n">>, <<"k","o">>, <<"k","r">>, <<"k","s">>, <<"k","u">>,
    <<"k","v">>, <<"k","w">>, <<"k","y">>, <<"l","a">>, <<"l","b">>, <<"l","g">>, <<"l","i">>, <<"l","n">>,
    <<"l","o">>, <<"l","t">>, <<"l","u">>, <<"l","v">>, <<"m","g">>, <<"m","h">>, <<"m","i">>, <<"m","k">>,
    <<"m","l">>, <<"m","n">>, <<"m","r">>, <<"m","s">>, <<"m","t">>, <<"m","y">>, <<"n","a">>, <<"n","b">>,
    <<"n","d">>, <<"n","e">>, <<"n","g">>, <<"n","l">>, <<"n","n">>, <<"n","o">>, <<"n","r">>, <<"n","v">>,
    <<"n","y">>, <<"o","c">>, <<"o","j">>, <<"o","m">>, <<"o","r">>, <<"o","s">>, <<"p","a">>, <<"p","i">>,
    <<"p","l">>, <<"p","s">>, <<"p","t">>, <<"q","u">>, <<"r","m">>, <<"r","n">>, <<"r","o">>, <<"r","u">>,
    <<"r","w">>, <<"s","a">>, <<"s","c">>, <<"s","d">>, <<"s","e">>, <<"s","g">>, <<"s","i">>, <<"s","k">>,
    <<"s","l">>, <<"s","m">>, <<"s","n">>, <<"s","o">>, <<"s","q">>, <<"s","r">>, <<"s","s">>, <<"s","t">>,
    <<"s","u">>, <<"s","v">>, <<"s","w">>, <<"t","a">>, <<"t","e">>, <<"t","g">>, <<"t","h">>, <<"t","i">>,
    <<"t","k">>, <<"t","l">>, <<"t","n">>, <<"t","o">>, <<"t","r">>, <<"t","s">>, <<"t","t">>, <<"t","w">>,
    <<"t","y">>, <<"u","g">>, <<"u","k">>, <<"u","r">>, <<"u","z">>, <<"v","e">>, <<"v","i">>, <<"v","o">>,
    <<"w","a">>, <<"w","o">>, <<"x","h">>, <<"y","i">>, <<"y","o">>, <<"z","a">>, <<"z","h">>, <<"z","u">> }

LanguageCodeMapHas(base) == \E p \in LANGUAGE_CODE_MAP_PAIRS : p[1] = base

LanguageCodeMapGet(base) ==
  (CHOOSE p \in LANGUAGE_CODE_MAP_PAIRS : p[1] = base)[2]

\* The index of the first character of s at or after position i that is a
\* separator of /[-_]/, or Len(s) + 1 when there is none.
RECURSIVE NextSeparator(_, _)
NextSeparator(s, i) ==
  IF i > Len(s) \/ s[i] \in {"-", "_"} THEN i ELSE NextSeparator(s, i + 1)

\* normalized.split(/[-_]/)[0]
SplitPart0(s) == SubSeq(s, 1, NextSeparator(s, 1) - 1)

\* normalized.split(/[-_]/)[1], the empty sequence when there is no such part
SplitPart1(s) ==
  LET first == NextSeparator(s, 1)
  IN  IF first > Len(s) THEN <<>>
      ELSE SubSeq(s, first + 1, NextSeparator(s, first + 1) - 1)

\* Lines 91-136 with the region of line 101 left in lower case
normalizeLanguageCode_keepsRegionCase(code) ==
  IF code = <<>> THEN
    [code |-> <<>>, warning |-> "", converted |-> FALSE, original |-> <<>>]
  ELSE
    LET original == Trim(code)
        lowered == ToLowerCase(original)
        part0 == SplitPart0(lowered)
        region == SplitPart1(lowered)
        mapped == Len(part0) = 3 /\ LanguageCodeMapHas(part0)
        baseLang == IF mapped THEN LanguageCodeMapGet(part0) ELSE part0
        normalized == IF region # <<>> THEN baseLang \o <<"-">> \o region
                      ELSE baseLang
    IN  IF Len(baseLang) = 2 /\ baseLang \notin VALID_BCP47_CODES THEN
          [code |-> normalized, warning |-> "unknown",
           converted |-> FALSE, original |-> <<>>]
        ELSE IF Len(part0) = 3 /\ ~LanguageCodeMapHas(part0) THEN
          [code |-> normalized, warning |-> "couldNotConvert",
           converted |-> FALSE, original |-> <<>>]
        ELSE IF baseLang # part0 /\ Len(part0) = 3 THEN
          [code |-> normalized, warning |-> "",
           converted |-> TRUE, original |-> original]
        ELSE
          [code |-> normalized, warning |-> "",
           converted |-> FALSE, original |-> <<>>]

\* The result record: warning is "" (none), "unknown" or "couldNotConvert".
normalizeLanguageCode(code) ==
  IF code = <<>> THEN
    [code |-> <<>>, warning |-> "", converted |-> FALSE, original |-> <<>>]
  ELSE
    LET original == Trim(code)
        lowered == ToLowerCase(original)
        part0 == SplitPart0(lowered)
        part1 == SplitPart1(lowered)
        region == ToUpperCase(part1)
        mapped == Len(part0) = 3 /\ LanguageCodeMapHas(part0)
        baseLang == IF mapped THEN LanguageCodeMapGet(part0) ELSE part0
        normalized == IF region # <<>> THEN baseLang \o <<"-">> \o region
                      ELSE baseLang
    IN  IF Len(baseLang) = 2 /\ baseLang \notin VALID_BCP47_CODES THEN
          [code |-> normalized, warning |-> "unknown",
           converted |-> FALSE, original |-> <<>>]
        ELSE IF Len(part0) = 3 /\ ~LanguageCodeMapHas(part0) THEN
          [code |-> normalized, warning |-> "couldNotConvert",
           converted |-> FALSE, original |-> <<>>]
        ELSE IF baseLang # part0 /\ Len(part0) = 3 THEN
          [code |-> normalized, warning |-> "",
           converted |-> TRUE, original |-> original]
        ELSE
          [code |-> normalized, warning |-> "",
           converted |-> FALSE, original |-> <<>>]

\* ------------------------------------------------------------------------
\* The parsed package document (the tree xml2js builds, readEpub's opf)
\*
\*   opf.pkg       package attributes: hasAttrs (package.$ exists), version,
\*                 uniqueIdentifier (the unique-identifier attribute)
\*   opf.meta      package.metadata[0]: one sequence per element name
\*   opf.manifest  package.manifest[0].item, and whether it exists
\*
\* dc:title element       [val, id]
\* dc:creator element     [val, id, role]        role is the opf:role attribute
\* dc:identifier element  [val, id, scheme]      scheme is opf:scheme
\* meta element           [property, name, scheme, refines, content, id, val]
\* manifest item          [id, href, mediaType, properties]
\*
\* Attributes the code only compares for equality (property, name, scheme and
\* opf:scheme) are plain strings, "" when absent; all other values are
\* character sequences.
\* ------------------------------------------------------------------------

MetaElement(property, name, scheme, refines, content, id, val) ==
  [property |-> property, name |-> name, scheme |-> scheme,
   refines |-> refines, content |-> content, id |-> id, val |-> val]

\* <meta property=... refines=...>val</meta>
Refinement(property, scheme, refines, val) ==
  MetaElement(property, "", scheme, refines, <<>>, <<>>, val)

\* <meta name=... content=.../>
NamedMeta(name, content) ==
  MetaElement("", name, "", <<>>, content, <<>>, <<>>)

\* `#${id}`
Hash(id) == <<"#">> \o id

\* String(n) for a natural number n
RECURSIVE ToDecimal(_)
ToDecimal(n) ==
  LET digit == <<"0", "1", "2", "3", "4", "5", "6", "7", "8", "9">>[(n % 10) + 1]
  IN  IF n < 10 THEN <<digit>> ELSE ToDecimal(n \div 10) \o <<digit>>

\* pkg.$?.version || "3.0", then startsWith("2")
isEpub2(opf) ==
  StartsWith(IF opf.pkg.hasAttrs /\ opf.pkg.version # <<>>
             THEN opf.pkg.version ELSE Str_3dot0,
             <<"2">>)

\* meta["dc:title"]?.[0] is truthy: an element with attributes is an object,
\* one without is its text, and the empty text is falsy.
FirstTitleTruthy(meta) ==
  meta.dcTitle # <<>> /\ (meta.dcTitle[1].id # <<>> \/ meta.dcTitle[1].val # <<>>)

\* ------------------------------------------------------------------------
\* writeEpub, step by step in the order of the source.  Each step maps the
\* metadata block (or the whole document) to its value after the step.
\* ------------------------------------------------------------------------

\* Lines 532-535: the title warning
TitleWarning(meta, updates) ==
  IF updates.title = <<>> /\ ~FirstTitleTruthy(meta)
  THEN <<"Warning: EPUB requires a title (dc:title)">>
  ELSE <<>>

\* Lines 542-545: every title-type refinement is dropped
DropTitleTypes(meta) ==
  [meta EXCEPT !.meta = SelectSeq(@, LAMBDA m : m.property # "title-type")]

\* The subtitle left out of the stored title
WriteTitle_ignoresSubtitle(meta, updates) ==
  IF updates.title = <<>> THEN meta
  ELSE [meta EXCEPT !.dcTitle =
          <<[val |-> sanitizeMetadataString(updates.title), id |-> <<>>]>>]

\* Lines 547-562: a single combined dc:title
WriteTitle(meta, updates) ==
  IF updates.title = <<>> THEN meta
  ELSE
    LET sanitizedTitle == sanitizeMetadataString(updates.title)
        sanitizedSubtitle == sanitizeMetadataString(updates.subtitle)
        combinedTitle ==
          IF updates.subtitle # <<>> /\ sanitizedSubtitle # <<>>
          THEN sanitizedTitle \o <<":", " ">> \o sanitizedSubtitle
          ELSE sanitizedTitle
    IN  [meta EXCEPT !.dcTitle = <<[val |-> combinedTitle, id |-> <<>>]>>]

\* Lines 522-527: the helper `set`; old is the element list, value the update
SetSimple(old, value) ==
  IF value = <<>> THEN old
  ELSE IF sanitizeMetadataString(value) = <<>> THEN old
  ELSE <<sanitizeMetadataString(value)>>

\* Lines 565-568
WriteScalars(meta, updates) ==
  [meta EXCEPT !.dcPublisher = SetSimple(@, updates.publisher),
               !.dcDate = SetSimple(@, updates.date),
               !.dcDescription = SetSimple(@, updates.description),
               !.dcRights = SetSimple(@, updates.rights)]

\* Lines 571-576
WriteLanguage(meta, updates) ==
  IF updates.language = <<>> THEN meta
  ELSE
    LET langResult == normalizeLanguageCode(sanitizeMetadataString(updates.language))
    IN  IF langResult.code # <<>>
        THEN [meta EXCEPT !.dcLanguage = <<langResult.code>>]
        ELSE meta

\* An author of the update set is a string (isString, name) or an object
\* {name, role, fileAs}.

\* Lines 589-600: the dc:creator element of the author at index idx (from 0)
CreatorEntry(author, idx) ==
  [val |-> sanitizeMetadataString(author.name),
   id |-> Str_creatorDash \o ToDecimal(idx),
   role |-> IF ~author.isString /\ author.role # <<>> THEN author.role ELSE <<>>]

\* Lines 604-620: the refinements pushed for the author at index idx
AuthorRefinements(author, idx) ==
  IF author.isString THEN <<>>
  ELSE
    (IF author.fileAs # <<>>
     THEN <<Refinement("file-as", "", Hash(Str_creatorDash \o ToDecimal(idx)),
                       sanitizeMetadataString(author.fileAs))>>
     ELSE <<>>)
    \o
    (IF author.role # <<>> /\ author.role # Str_aut
     THEN <<Refinement("role", "marc:relators",
                       Hash(Str_creatorDash \o ToDecimal(idx)), author.role)>>
     ELSE <<>>)

RECURSIVE AllAuthorRefinements(_, _)
AllAuthorRefinements(authors, idx) ==
  IF idx >= Len(authors) THEN <<>>
  ELSE AuthorRefinements(authors[idx + 1], idx) \o AllAuthorRefinements(authors, idx + 1)

\* The old creator refinements kept
DropCreatorRefinements_keepsAll(metas) == metas

\* Lines 583-586: the old creator refinements go
DropCreatorRefinements(metas) ==
  SelectSeq(metas, LAMBDA m :
    /\ ~(m.property = "file-as" /\ StartsWith(m.refines, Str_hashCreator))
    /\ ~(m.property = "role" /\ StartsWith(m.refines, Str_hashCreator)))

\* Lines 580-629
WriteAuthors(meta, updates, epub2) ==
  IF updates.authors # <<>> THEN
    LET creators == [i \in 1..Len(updates.authors) |->
                       CreatorEntry(updates.authors[i], i - 1)]
    IN  IF epub2 THEN [meta EXCEPT !.dcCreator = creators]
        ELSE [meta EXCEPT !.dcCreator = creators,
                          !.meta = DropCreatorRefinements(@)
                                     \o AllAuthorRefinements(updates.authors, 0)]
  ELSE IF updates.author # <<>> THEN
    [meta EXCEPT !.dcCreator =
       <<[val |-> sanitizeMetadataString(updates.author),
          id |-> Str_creatorDash \o <<"0">>,
          role |-> <<>>]>>]
  ELSE meta

\* The scheme test of line 654 as a truthiness test: any scheme counts
isExistingISBN_anyScheme(id) ==
  LET value == Trim(id.val)
      cleanValue == StripHyphensSpaces(StripUrnIsbn(value))
  IN  id.scheme # "" \/ MatchesISBN10(cleanValue) \/ MatchesISBN13(cleanValue)

\* Lines 649-656: the writer's test for an existing ISBN entry
isExistingISBN(id) ==
  LET value == Trim(id.val)
      cleanValue == StripHyphensSpaces(StripUrnIsbn(value))
  IN  id.scheme = "ISBN" \/ MatchesISBN10(cleanValue) \/ MatchesISBN13(cleanValue)

\* Lines 633-636
UpdateIsISBN10(updates) ==
  MatchesISBN10(StripHyphensSpaces(sanitizeMetadataString(updates.identifier)))

UpdateIsISBN13(updates) ==
  MatchesISBN13(StripHyphensSpaces(sanitizeMetadataString(updates.identifier)))

UpdateIsISBN(updates) == UpdateIsISBN10(updates) \/ UpdateIsISBN13(updates)

\* The rewritten entry of lines 661-664 built like the appended one of
\* lines 674-677: id "pub-id" and no scheme, whatever the entry had
MapIdentifier_freshEntry(id, updates) ==
  IF isExistingISBN(id) /\ UpdateIsISBN(updates)
  THEN [val |-> sanitizeMetadataString(updates.identifier),
        id |-> Str_pubId, scheme |-> ""]
  ELSE id

\* Lines 658-668: the callback of existingArray.map
MapIdentifier(id, updates) ==
  IF isExistingISBN(id) /\ UpdateIsISBN(updates)
  THEN [val |-> sanitizeMetadataString(updates.identifier),
        id |-> IF id.id # <<>> THEN id.id ELSE Str_pubId,
        scheme |-> IF id.scheme # "" THEN "ISBN" ELSE ""]
  ELSE id

\* Lines 645-646, 659: foundExistingISBN after the map
foundExistingISBN(meta, updates) ==
  \E i \in 1..Len(meta.dcIdentifier) :
    isExistingISBN(meta.dcIdentifier[i]) /\ UpdateIsISBN(updates)

\* The test of line 672 without `(isISBN10 || isISBN13)`
AppendsNewISBN_anyValue(meta, updates) ==
  updates.identifier # <<>> /\ ~foundExistingISBN(meta, updates)

\* Lines 672: a new entry is appended
AppendsNewISBN(meta, updates) ==
  updates.identifier # <<>> /\ ~foundExistingISBN(meta, updates) /\ UpdateIsISBN(updates)

\* Lines 632-702 without the filter of lines 681-683: the refinement of
\* line 685 is pushed next to the ones already targeting "#pub-id"
WriteIdentifier_keepsOldRefinement(meta, updates, epub2) ==
  IF updates.identifier = <<>> THEN meta
  ELSE
    LET updatedIdentifiers ==
          [i \in 1..Len(meta.dcIdentifier) |->
             MapIdentifier(meta.dcIdentifier[i], updates)]
        newEntry == [val |-> sanitizeMetadataString(updates.identifier),
                     id |-> Str_pubId, scheme |-> ""]
        newRefinement ==
          Refinement("identifier-type", "onix:codelist5", Hash(Str_pubId),
                     IF UpdateIsISBN13(updates) THEN Str_15 ELSE Str_02)
    IN  IF AppendsNewISBN(meta, updates) THEN
          [meta EXCEPT
             !.dcIdentifier = Append(updatedIdentifiers, newEntry),
             !.meta = IF epub2 THEN @ ELSE Append(@, newRefinement)]
        ELSE [meta EXCEPT !.dcIdentifier = updatedIdentifiers]

\* Lines 632-702, the metadata block
WriteIdentifier(meta, updates, epub2) ==
  IF updates.identifier = <<>> THEN meta
  ELSE
    LET updatedIdentifiers ==
          [i \in 1..Len(meta.dcIdentifier) |->
             MapIdentifier(meta.dcIdentifier[i], updates)]
        newEntry == [val |-> sanitizeMetadataString(updates.identifier),
                     id |-> Str_pubId, scheme |-> ""]
        newRefinement ==
          Refinement("identifier-type", "onix:codelist5", Hash(Str_pubId),
                     IF UpdateIsISBN13(updates) THEN Str_15 ELSE Str_02)
    IN  IF AppendsNewISBN(meta, updates) THEN
          [meta EXCEPT
             !.dcIdentifier = Append(updatedIdentifiers, newEntry),
             !.meta = IF epub2 THEN @
                      ELSE Append(SelectSeq(@, LAMBDA m :
                                    ~(m.refines = Hash(Str_pubId)
                                      /\ m.property = "identifier-type")),
                                  newRefinement)]
        ELSE [meta EXCEPT !.dcIdentifier = updatedIdentifiers]

\* The test of line 696 without `!uniqueIdRef`
WriteUniqueIdentifier_overwrites(opf, updates) ==
  IF AppendsNewISBN(opf.meta, updates) /\ opf.pkg.hasAttrs
  THEN [opf.pkg EXCEPT !.uniqueIdentifier = Str_pubId]
  ELSE opf.pkg

\* Lines 642-643, 695-698: the package attributes (no step before the
\* identifier step changes the identifier list)
WriteUniqueIdentifier(opf, updates) ==
  IF AppendsNewISBN(opf.meta, updates)
     /\ opf.pkg.uniqueIdentifier = <<>> /\ opf.pkg.hasAttrs
  THEN [opf.pkg EXCEPT !.uniqueIdentifier = Str_pubId]
  ELSE opf.pkg

\* Lines 704-707: the identifier warning, on the block after the identifier step
IdentifierWarning(meta) ==
  IF meta.dcIdentifier = <<>>
  THEN <<"Warning: EPUB requires at least one identifier (dc:identifier)">>
  ELSE <<>>

\* Lines 709-713
WriteSubjects(meta, updates) ==
  IF updates.subjects # <<>>
  THEN [meta EXCEPT !.dcSubject =
          [i \in 1..Len(updates.subjects) |->
             sanitizeMetadataString(updates.subjects[i])]]
  ELSE meta

\* Lines 720-748: version 3 series
WriteSeries3(metas, updates) ==
  LET kept == SelectSeq(metas, LAMBDA m :
                /\ m.property # "belongs-to-collection"
                /\ m.property # "group-position"
                /\ m.property # "collection-type"
                /\ ~StartsWith(m.refines, Str_hashCollection))
  IN  IF updates.series = <<>> THEN kept
      ELSE kept
           \o <<MetaElement("belongs-to-collection", "", "", <<>>, <<>>,
                            Str_collection, sanitizeMetadataString(updates.series)),
                Refinement("collection-type", "", Hash(Str_collection), Str_series)>>
           \o (IF updates.seriesIndex # <<>>
               THEN <<Refinement("group-position", "", Hash(Str_collection),
                                 updates.seriesIndex)>>
               ELSE <<>>)

\* Lines 750-759 without the filter of line 752: the new timestamp is pushed
\* next to the old ones
WriteModified_appends(metas, now) ==
  Append(metas, Refinement("dcterms:modified", "", <<>>, now))

\* Lines 750-759: the modified timestamp; now is the clock's reading
WriteModified(metas, now) ==
  Append(SelectSeq(metas, LAMBDA m : m.property # "dcterms:modified"),
         Refinement("dcterms:modified", "", <<>>, now))

\* Lines 761-779: version 2 series as calibre meta pairs
WriteSeries2(metas, updates) ==
  IF updates.series = <<>> THEN metas
  ELSE SelectSeq(metas, LAMBDA m :
         m.name # "calibre:series" /\ m.name # "calibre:series_index")
       \o <<NamedMeta("calibre:series", sanitizeMetadataString(updates.series))>>
       \o (IF updates.seriesIndex # <<>>
           THEN <<NamedMeta("calibre:series_index", updates.seriesIndex)>>
           ELSE <<>>)

\* The version check of line 720 lost: the version-3 branch runs always
WriteSeriesAndModified_noVersionCheck(meta, updates, epub2, now) ==
  [meta EXCEPT !.meta = WriteModified(WriteSeries3(@, updates), now)]

\* Lines 716-780
WriteSeriesAndModified(meta, updates, epub2, now) ==
  IF epub2
  THEN [meta EXCEPT !.meta = WriteSeries2(@, updates)]
  ELSE [meta EXCEPT !.meta = WriteModified(WriteSeries3(@, updates), now)]

\* ------------------------------------------------------------------------
\* path.dirname and path.join (POSIX) on relative archive paths
\* ------------------------------------------------------------------------

\* The index of the last "/" of p, 0 when there is none
RECURSIVE LastSlash(_, _)
LastSlash(p, i) ==
  IF i = 0 \/ p[i] = "/" THEN i ELSE LastSlash(p, i - 1)

dirname(p) ==
  LET k == LastSlash(p, Len(p))
  IN  IF k = 0 THEN <<".">>
      ELSE IF k = 1 THEN <<"/">>
      ELSE SubSeq(p, 1, k - 1)

\* The "/"-separated segments of p
RECURSIVE Segments(_)
Segments(p) ==
  LET k == CHOOSE i \in 1..(Len(p) + 1) :
             /\ (i = Len(p) + 1 \/ p[i] = "/")
             /\ \A j \in 1..(i - 1) : p[j] # "/"
  IN  IF k = Len(p) + 1 THEN <<p>>
      ELSE <<SubSeq(p, 1, k - 1)>> \o Segments(SubSeq(p, k + 1, Len(p)))

\* path.normalize on segments: "" and "." vanish, ".." removes its parent
RECURSIVE NormalizeSegments(_, _)
NormalizeSegments(segs, acc) ==
  IF segs = <<>> THEN acc
  ELSE LET s == Head(segs)
       IN  IF s = <<>> \/ s = <<".">> THEN NormalizeSegments(Tail(segs), acc)
           ELSE IF s = <<".", ".">> /\ acc # <<>> /\ acc[Len(acc)] # <<".", ".">>
                THEN NormalizeSegments(Tail(segs), SubSeq(acc, 1, Len(acc) - 1))
           ELSE NormalizeSegments(Tail(segs), Append(acc, s))

RECURSIVE JoinSegments(_)
JoinSegments(segs) ==
  IF segs = <<>> THEN <<>>
  ELSE IF Len(segs) = 1 THEN segs[1]
  ELSE segs[1] \o <<"/">> \o JoinSegments(Tail(segs))

\* The directory dropped: the relative path alone
pathJoin_ignoresDir(dir, rel) ==
  LET segs == NormalizeSegments(Segments(rel), <<>>)
  IN  IF segs = <<>> THEN <<".">> ELSE JoinSegments(segs)

\* path.join(dir, rel) for relative dir and rel
pathJoin(dir, rel) ==
  LET segs == NormalizeSegments(Segments(dir \o <<"/">> \o rel), <<>>)
  IN  IF segs = <<>> THEN <<".">> ELSE JoinSegments(segs)

\* ------------------------------------------------------------------------
\* The cover: getCoverImage and the cover step of writeEpub
\* ------------------------------------------------------------------------

\* array.find as an index: hits[i] tells whether the callback accepts the
\* i-th element; the result is the least accepted index, or 0
FindIndex(hits) ==
  IF \E i \in 1..Len(hits) : hits[i]
  THEN CHOOSE i \in 1..Len(hits) : hits[i] /\ \A j \in 1..(i - 1) : ~hits[j]
  ELSE 0

HasCoverImageProperty(item) ==
  item.properties # <<>> /\ Includes(item.properties, Str_coverImage)

IsCoverNamedImage(item) ==
  /\ item.id # <<>>
  /\ Includes(ToLowerCase(item.id), Str_cover)
  /\ StartsWith(item.mediaType, Str_imageSlash)

\* meta.meta.find(m => m.$.name === "cover"), then its content ("" when none)
CoverMetaContent(metas) ==
  LET k == FindIndex([i \in 1..Len(metas) |-> metas[i].name = "cover"])
  IN  IF k = 0 THEN <<>> ELSE metas[k].content

\* The chain of lines 406-440 with its first two rules exchanged: the
\* cover-image property is tried before the meta name="cover" pointer
ReaderCoverId_propertyFirst(opf) ==
  LET manifest == opf.manifest.item
      byMeta == CoverMetaContent(opf.meta.meta)
      k2 == FindIndex([i \in 1..Len(manifest) |-> HasCoverImageProperty(manifest[i])])
      byProperty == IF k2 = 0 THEN <<>> ELSE manifest[k2].id
      k3 == FindIndex([i \in 1..Len(manifest) |-> IsCoverNamedImage(manifest[i])])
      byName == IF k3 = 0 THEN <<>> ELSE manifest[k3].id
  IN  IF byProperty # <<>> THEN byProperty
      ELSE IF byMeta # <<>> THEN byMeta
      ELSE byName

\* Lines 406-442 of getCoverImage: the cover id the reader settles on
ReaderCoverId(opf) ==
  LET manifest == opf.manifest.item
      byMeta == CoverMetaContent(opf.meta.meta)
      k2 == FindIndex([i \in 1..Len(manifest) |-> HasCoverImageProperty(manifest[i])])
      byProperty == IF k2 = 0 THEN <<>> ELSE manifest[k2].id
      k3 == FindIndex([i \in 1..Len(manifest) |-> IsCoverNamedImage(manifest[i])])
      byName == IF k3 = 0 THEN <<>> ELSE manifest[k3].id
  IN  IF byMeta # <<>> THEN byMeta
      ELSE IF byProperty # <<>> THEN byProperty
      ELSE byName

\* Lines 398-446: the index of the manifest item the reader resolves the cover
\* to, 0 when it resolves to none
ReaderCoverItem(opf) ==
  IF ~opf.manifest.present \/ ReaderCoverId(opf) = <<>> THEN 0
  ELSE FindIndex([i \in 1..Len(opf.manifest.item) |->
                    opf.manifest.item[i].id = ReaderCoverId(opf)])

\* buffer.toString("base64"): an injective encoding, kept as a tagged value
Base64(bytes) == [base64 |-> bytes]

\* getCoverImage: the empty sequence for null, else one encoded buffer
getCoverImage(zip, opf, opfPath) ==
  LET k == ReaderCoverItem(opf)
  IN  IF k = 0 THEN <<>>
      ELSE IF opf.manifest.item[k].href = <<>> THEN <<>>
      ELSE LET fullCoverPath == pathJoin(dirname(opfPath), opf.manifest.item[k].href)
           IN  IF fullCoverPath \notin DOMAIN zip THEN <<>>
               ELSE <<Base64(zip[fullCoverPath].bytes)>>

\* Lines 801-827 of writeEpub: the index of the manifest item the writer
\* takes as the existing cover, 0 when it finds none
WriterCoverItem(opf, meta, epub2) ==
  LET manifest == opf.manifest.item
      k1 == IF epub2 THEN 0 ELSE FindIndex([i \in 1..Len(manifest) |-> HasCoverImageProperty(manifest[i])])
      coverId == CoverMetaContent(meta.meta)
      k2 == IF coverId = <<>> THEN 0
            ELSE FindIndex([i \in 1..Len(manifest) |-> manifest[i].id = coverId])
      k3 == FindIndex([i \in 1..Len(manifest) |-> IsCoverNamedImage(manifest[i])])
  IN  IF k1 # 0 THEN k1 ELSE IF k2 # 0 THEN k2 ELSE k3

\* coverBuffer[0] === 0xFF && coverBuffer[1] === 0xD8
isJpeg(bytes) == Len(bytes) >= 2 /\ bytes[1] = 255 /\ bytes[2] = 216

\* Lines 783-875: the cover step on the document (meta is the metadata block
\* after the earlier steps) and the archive.  coverBuffer is the empty
\* sequence for null, else one byte sequence.  storeThrows: the archive
\* store's zip.file(path, data) throws on this call.  The result is the
\* document, the archive, whether the try block threw, the index of the
\* existing cover item it found (0: none) and the archive path it stored the
\* buffer under (empty: nothing stored).
WriteCover(opf, zip, opfPath, coverBuffer, storeThrows, epub2) ==
  IF coverBuffer = <<>>
  THEN [opf |-> opf, zip |-> zip, threw |-> FALSE, item |-> 0, path |-> <<>>]
  ELSE
    LET bytes == coverBuffer[1]
        \* lines 786-794: the manifest guard
        opf1 == [opf EXCEPT !.manifest.present = TRUE]
        k == WriterCoverItem(opf1, opf1.meta, epub2)
        opfDir == dirname(opfPath)
    IN  IF k # 0 THEN
          IF opf1.manifest.item[k].href = <<>> THEN
            \* path.join throws a TypeError on an undefined href
            [opf |-> opf1, zip |-> zip, threw |-> TRUE, item |-> k, path |-> <<>>]
          ELSE
            LET fullCoverPath == pathJoin(opfDir, opf1.manifest.item[k].href)
                opf2 == IF isJpeg(bytes)
                        THEN [opf1 EXCEPT !.manifest.item[k].mediaType = Str_imageJpeg]
                        ELSE opf1
            IN  IF storeThrows
                THEN [opf |-> opf2, zip |-> zip, threw |-> TRUE,
                      item |-> k, path |-> <<>>]
                ELSE [opf |-> opf2,
                      zip |-> [p \in DOMAIN zip \cup {fullCoverPath} |->
                                 IF p = fullCoverPath THEN [bytes |-> bytes]
                                 ELSE zip[p]],
                      threw |-> FALSE, item |-> k, path |-> fullCoverPath]
        ELSE
          LET fullCoverPath == pathJoin(opfDir, Str_imagesCoverJpg)
              newManifestItem ==
                [id |-> Str_coverImage, href |-> Str_imagesCoverJpg,
                 mediaType |-> Str_imageJpeg,
                 properties |-> IF epub2 THEN <<>> ELSE Str_coverImage]
          IN  IF storeThrows
              THEN [opf |-> opf1, zip |-> zip, threw |-> TRUE,
                    item |-> 0, path |-> <<>>]
              ELSE [opf |-> [opf1 EXCEPT
                               !.manifest.item = Append(@, newManifestItem),
                               !.meta.meta = Append(@, NamedMeta("cover", Str_coverImage))],
                    zip |-> [p \in DOMAIN zip \cup {fullCoverPath} |->
                               IF p = fullCoverPath THEN [bytes |-> bytes]
                               ELSE zip[p]],
                    threw |-> FALSE, item |-> 0, path |-> fullCoverPath]

\* ------------------------------------------------------------------------
\* writeEpub as a whole
\* ------------------------------------------------------------------------

\* Lines 510-780: the metadata block after every metadata step.  The steps
\* run in sequence, each on the block the step before it left: the block
\* after a step is bound as the one element of a singleton set.
WriteMetadata(opf, updates, now) ==
  CHOOSE result \in
    {WriteSeriesAndModified(m7, updates, isEpub2(opf), now) :
      m7 \in {WriteSubjects(m6, updates) :
        m6 \in {WriteIdentifier(m5, updates, isEpub2(opf)) :
          m5 \in {WriteAuthors(m4, updates, isEpub2(opf)) :
            m4 \in {WriteLanguage(m3, updates) :
              m3 \in {WriteScalars(m2, updates) :
                m2 \in {WriteTitle(m1, updates) :
                  m1 \in {DropTitleTypes(opf.meta)}}}}}}}} : TRUE

\* The local warnings array when writeEpub reaches its return statement
writeEpubWarnings(opf, updates) ==
  TitleWarning(opf.meta, updates)
  \o IdentifierWarning(WriteIdentifier(opf.meta, updates, isEpub2(opf)))

\* Builder.buildObject(opf): the serialized document, an injective rendering
\* of the tree, kept as a tagged value
BuildObject(opf) == [xml |-> opf]

\* Line 880: zip.generateAsync({type: "nodebuffer"}), the serialized archive
\* and nothing else
generateAsync(zip) == [nodebuffer |-> zip]

\* Lines 509-881: the document and the archive when writeEpub returns, the
\* value it returns, and its locals at that point
writeEpub(zip, opfPath, opf, updates, coverBuffer, now, storeThrows) ==
  CHOOSE result \in
    {[opf |-> c.opf,
      zip |-> zipAfter,
      returned |-> generateAsync(zipAfter),
      warnings |-> writeEpubWarnings(opf, updates),
      coverItem |-> c.item, coverPath |-> c.path, coverThrew |-> c.threw] :
     <<c, zipAfter>> \in
       {<<c0, [p \in DOMAIN c0.zip \cup {opfPath} |->
                 IF p = opfPath THEN BuildObject(c0.opf) ELSE c0.zip[p]]>> :
        c0 \in
          {WriteCover(opfA, zip, opfPath, coverBuffer, storeThrows, isEpub2(opf)) :
           opfA \in {[opf EXCEPT !.meta = WriteMetadata(opf, updates, now),
                                 !.pkg = WriteUniqueIdentifier(opf, updates)]}}}} : TRUE

\* ------------------------------------------------------------------------
\* extractMetadata
\* ------------------------------------------------------------------------

\* Lines 186-194: the title-type of a title element ("" when it has none)
TitleTypeOf(meta, t) ==
  LET k == FindIndex([i \in 1..Len(meta.meta) |->
             /\ meta.meta[i].refines = Hash(t.id)
             /\ meta.meta[i].property = "title-type"])
  IN  IF t.id = <<>> \/ k = 0 THEN <<>> ELSE meta.meta[k].val

\* Lines 181-202: the loop over the titles; acc is [title, subtitle] so far
RECURSIVE ScanTitles(_, _, _)
ScanTitles(meta, titles, acc) ==
  IF titles = <<>> THEN acc
  ELSE
    LET t == Head(titles)
        titleType == TitleTypeOf(meta, t)
    IN  IF titleType = Str_subtitle
        THEN ScanTitles(meta, Tail(titles), [acc EXCEPT !.subtitle = t.val])
        ELSE IF titleType = Str_main \/ acc.title = <<>>
        THEN ScanTitles(meta, Tail(titles), [acc EXCEPT !.title = t.val])
        ELSE ScanTitles(meta, Tail(titles), acc)

\* Lines 206-225: one author of the authors array
ExtractAuthor(meta, c) ==
  LET k == FindIndex([i \in 1..Len(meta.meta) |->
             /\ meta.meta[i].refines = Hash(c.id)
             /\ meta.meta[i].property = "file-as"])
  IN  [name |-> c.val,
       role |-> IF c.role # <<>> THEN c.role ELSE Str_aut,
       fileAs |-> IF c.id = <<>> \/ k = 0 THEN <<>> ELSE meta.meta[k].val]

\* Lines 228-231: one contributor of the contributors array
ExtractContributor(c) ==
  [name |-> c.val,
   role |-> IF c.role # <<>> THEN c.role ELSE Str_contributor]

\* Lines 249-258: the identifier-type refinement marks the entry as an ISBN
isISBNRefined(meta, id) ==
  LET k == FindIndex([i \in 1..Len(meta.meta) |->
             /\ meta.meta[i].refines = Hash(id.id)
             /\ meta.meta[i].property = "identifier-type"])
  IN  /\ id.id # <<>>
      /\ k # 0
      /\ \/ meta.meta[k].val = Str_15
         \/ meta.meta[k].val = Str_02
         \/ ToUpperCase(meta.meta[k].val) = Str_ISBN

\* Lines 241-265: the reader's test for an ISBN entry
ReaderIsISBN(meta, id) ==
  LET cleanValue == StripHyphensSpaces(StripUrnIsbn(Trim(id.val)))
  IN  \/ id.scheme = "ISBN"
      \/ isISBNRefined(meta, id)
      \/ MatchesISBN10(cleanValue)
      \/ MatchesISBN13(cleanValue)

\* The index of the identifier entry the reader surfaces, 0 when none
ReaderISBNIndex(meta) ==
  FindIndex([i \in 1..Len(meta.dcIdentifier) |->
               ReaderIsISBN(meta, meta.dcIdentifier[i])])

\* Lines 234-271
ExtractIdentifier(meta) ==
  LET k == ReaderISBNIndex(meta)
  IN  IF k = 0 THEN <<>> ELSE StripUrnIsbn(Trim(meta.dcIdentifier[k].val))

\* Line 169: get(k) on a list of simple elements
GetFirst(list) == IF list = <<>> THEN <<>> ELSE list[1]

\* Lines 171-172
getMetaProp(meta, prop) ==
  LET k == FindIndex([i \in 1..Len(meta.meta) |-> meta.meta[i].property = prop])
  IN  IF k = 0 THEN <<>> ELSE meta.meta[k].val

extractMetadata(meta) ==
  LET titles == ScanTitles(meta, meta.dcTitle, [title |-> <<>>, subtitle |-> <<>>])
      authors == [i \in 1..Len(meta.dcCreator) |-> ExtractAuthor(meta, meta.dcCreator[i])]
      rawLanguage == GetFirst(meta.dcLanguage)
      langResult == normalizeLanguageCode(rawLanguage)
  IN  [title |-> titles.title,
       subtitle |-> titles.subtitle,
       authors |-> authors,
       author |-> IF authors # <<>> THEN authors[1].name ELSE <<>>,
       contributors |-> [i \in 1..Len(meta.dcContributor) |->
                          ExtractContributor(meta.dcContributor[i])],
       language |-> langResult.code,
       languageWarning |-> langResult.warning,
       languageConverted |-> IF langResult.converted THEN rawLanguage ELSE <<>>,
       identifier |-> ExtractIdentifier(meta),
       publisher |-> GetFirst(meta.dcPublisher),
       date |-> GetFirst(meta.dcDate),
       description |-> GetFirst(meta.dcDescription),
       rights |-> GetFirst(meta.dcRights),
       series |-> getMetaProp(meta, "belongs-to-collection"),
       seriesIndex |-> getMetaProp(meta, "group-position"),
       subjects |-> meta.dcSubject]

\* ------------------------------------------------------------------------
\* normalizeMetadata, normalizeDateFormat, stripHTML
\* ------------------------------------------------------------------------

\* s.replace(/pat/g, rep) for a literal pattern: every occurrence, left to
\* right, without rescanning what was put in
RECURSIVE ReplaceAll(_, _, _)
ReplaceAll(s, pat, rep) ==
  IF Len(s) < Len(pat) THEN s
  ELSE IF SubSeq(s, 1, Len(pat)) = pat
       THEN rep \o ReplaceAll(SubSeq(s, Len(pat) + 1, Len(s)), pat, rep)
       ELSE <<s[1]>> \o ReplaceAll(Tail(s), pat, rep)

\* The least index from i on at which s holds c, or 0
RECURSIVE IndexFrom(_, _, _)
IndexFrom(s, c, i) ==
  IF i > Len(s) THEN 0
  ELSE IF s[i] = c THEN i
  ELSE IndexFrom(s, c, i + 1)

\* Line 380: replace(/<[^>]*>/g, ''), every stretch from a "<" to the next
\* ">" removed
RECURSIVE StripTags(_)
StripTags(s) ==
  LET open == IndexFrom(s, "<", 1)
      close == IF open = 0 THEN 0 ELSE IndexFrom(s, ">", open + 1)
  IN  IF close = 0 THEN s
      ELSE SubSeq(s, 1, open - 1) \o StripTags(SubSeq(s, close + 1, Len(s)))

\* Line 387: replace(/\s+/g, ' '), every run of white space becomes a space
RECURSIVE CollapseWhiteSpace(_)
CollapseWhiteSpace(s) ==
  IF s = <<>> THEN <<>>
  ELSE IF s[1] \in WhiteSpace
       THEN <<" ">> \o CollapseWhiteSpace(TrimStart(s))
       ELSE <<s[1]>> \o CollapseWhiteSpace(Tail(s))

Str_nbsp == <<"&", "n", "b", "s", "p", ";">>
Str_amp == <<"&", "a", "m", "p", ";">>
Str_lt == <<"&", "l", "t", ";">>
Str_gt == <<"&", "g", "t", ";">>
Str_quot == <<"&", "q", "u", "o", "t", ";">>
Str_apos == <<"&", "#", "3", "9", ";">>

\* Lines 377-389: the replacements in the order of the source
stripHTML(html) ==
  IF html = <<>> THEN <<>>
  ELSE
    CHOOSE result \in
      {Trim(CollapseWhiteSpace(s7)) :
        s7 \in {ReplaceAll(s6, Str_apos, <<"'">>) :
          s6 \in {ReplaceAll(s5, Str_quot, <<"\"">>) :
            s5 \in {ReplaceAll(s4, Str_gt, <<">">>) :
              s4 \in {ReplaceAll(s3, Str_lt, <<"<">>) :
                s3 \in {ReplaceAll(s2, Str_amp, <<"&">>) :
                  s2 \in {ReplaceAll(s1, Str_nbsp, <<" ">>) :
                    s1 \in {StripTags(html)}}}}}}}} : TRUE

AllDigits(s) == \A i \in 1..Len(s) : s[i] \in Digits

\* The number a string of digits writes
RECURSIVE ToNumber(_)
ToNumber(s) ==
  IF s = <<>> THEN 0
  ELSE LET digit == CHOOSE d \in 0..9 : ToDecimal(d) = <<s[Len(s)]>>
       IN  10 * ToNumber(SubSeq(s, 1, Len(s) - 1)) + digit

\* Line 352: /^\d{4}(-\d{2}-\d{2})?$/
IsYearOrIsoDate(s) ==
  \/ Len(s) = 4 /\ AllDigits(s)
  \/ /\ Len(s) = 10
     /\ AllDigits(SubSeq(s, 1, 4)) /\ s[5] = "-"
     /\ AllDigits(SubSeq(s, 6, 7)) /\ s[8] = "-"
     /\ AllDigits(SubSeq(s, 9, 10))

\* Line 357: new Date(dateStr) on the date-time strings of the language
\* standard that the first test lets through, the year-month form YYYY-MM
\* and the UTC form YYYY-MM-DDTHH:mm:ssZ, read on a host whose zone is UTC
\* (the container sets none).  Days are read in 01..28, which every month
\* has; a month outside 01..12 or a string of another form (a number with
\* a word the parser does not know after it, or no number at all) is not a
\* date.
DateParse(s) ==
  LET invalid == [valid |-> FALSE, year |-> 0, month |-> 0, date |-> 0]
      yearMonth == /\ Len(s) >= 7
                   /\ AllDigits(SubSeq(s, 1, 4)) /\ s[5] = "-"
                   /\ AllDigits(SubSeq(s, 6, 7))
                   /\ ToNumber(SubSeq(s, 6, 7)) \in 1..12
  IN  IF ~yearMonth THEN invalid
      ELSE IF Len(s) = 7
      THEN [valid |-> TRUE, year |-> ToNumber(SubSeq(s, 1, 4)),
            month |-> ToNumber(SubSeq(s, 6, 7)), date |-> 1]
      ELSE IF /\ Len(s) = 20
              /\ s[8] = "-" /\ AllDigits(SubSeq(s, 9, 10))
              /\ ToNumber(SubSeq(s, 9, 10)) \in 1..28
              /\ s[11] = "T"
              /\ AllDigits(SubSeq(s, 12, 13)) /\ ToNumber(SubSeq(s, 12, 13)) \in 0..23
              /\ s[14] = ":"
              /\ AllDigits(SubSeq(s, 15, 16)) /\ ToNumber(SubSeq(s, 15, 16)) \in 0..59
              /\ s[17] = ":"
              /\ AllDigits(SubSeq(s, 18, 19)) /\ ToNumber(SubSeq(s, 18, 19)) \in 0..59
              /\ s[20] = "Z"
      THEN [valid |-> TRUE, year |-> ToNumber(SubSeq(s, 1, 4)),
            month |-> ToNumber(SubSeq(s, 6, 7)),
            date |-> ToNumber(SubSeq(s, 9, 10))]
      ELSE invalid

\* String(n).padStart(2, '0')
PadStart2(n) == IF n < 10 THEN <<"0">> \o ToDecimal(n) ELSE ToDecimal(n)

\* Line 367: dateStr.match(/\d{4}/), the first four digits in a row, or the
\* empty sequence
RECURSIVE FirstFourDigits(_)
FirstFourDigits(s) ==
  IF Len(s) < 4 THEN <<>>
  ELSE IF AllDigits(SubSeq(s, 1, 4)) THEN SubSeq(s, 1, 4)
  ELSE FirstFourDigits(Tail(s))

\* Lines 348-372
normalizeDateFormat(dateStr) ==
  IF dateStr = <<>> THEN <<>>
  ELSE IF IsYearOrIsoDate(dateStr) THEN dateStr
  ELSE
    LET date == DateParse(dateStr)
    IN  IF date.valid
        THEN ToDecimal(date.year) \o <<"-">> \o PadStart2(date.month)
               \o <<"-">> \o PadStart2(date.date)
        ELSE IF FirstFourDigits(dateStr) # <<>> THEN FirstFourDigits(dateStr)
        ELSE dateStr

\* Lines 310-313: [...new Set(value.map(trim).filter(v => v))], the trimmed
\* non-empty entries, each kept where it first occurs
RECURSIVE TrimAndDeduplicate(_, _)
TrimAndDeduplicate(list, acc) ==
  IF list = <<>> THEN acc
  ELSE LET v == Trim(Head(list))
       IN  IF v = <<>> \/ \E i \in 1..Len(acc) : acc[i] = v
           THEN TrimAndDeduplicate(Tail(list), acc)
           ELSE TrimAndDeduplicate(Tail(list), Append(acc, v))

\* Lines 331-341: the warnings of the language step
LanguageWarnings(langResult) ==
  (IF langResult.warning # ""
   THEN <<[kind |-> langResult.warning, original |-> <<>>, code |-> <<>>]>>
   ELSE <<>>)
  \o
  (IF langResult.converted
   THEN <<[kind |-> "converted", original |-> langResult.original,
           code |-> langResult.code]>>
   ELSE <<>>)

\* Lines 300-343 on a record of the string fields title, description, date
\* and language and the array field subjects.  The field warnings is the
\* result's _warnings: the list of this call's warnings (empty for
\* undefined), whatever _warnings the input held.
normalizeMetadata(metadata) ==
  LET date == Trim(metadata.date)
      description == Trim(metadata.description)
      language == Trim(metadata.language)
      langResult == normalizeLanguageCode(language)
  IN  [title |-> Trim(metadata.title),
       subjects |-> TrimAndDeduplicate(metadata.subjects, <<>>),
       date |-> IF date # <<>> THEN normalizeDateFormat(date) ELSE date,
       description |-> IF description # <<>> THEN stripHTML(description)
                       ELSE description,
       language |-> IF language # <<>> THEN langResult.code ELSE language,
       warnings |-> IF language # <<>> THEN LanguageWarnings(langResult)
                     ELSE <<>>]

\* ------------------------------------------------------------------------
\* Sample values: the strings the documents and update sets are drawn from
\* ------------------------------------------------------------------------

V_isbn10 == <<"0", "3", "0", "6", "4", "0", "6", "1", "5", "2">>
V_isbn10x == <<"0", "3", "0", "6", "4", "0", "6", "1", "5", "X">>
V_isbn13 ==
  <<"9", "7", "8", "0", "3", "0", "6", "4", "0", "6", "1", "5",
    "7">>
V_isbn13other ==
  <<"9", "7", "9", "1", "2", "3", "4", "5", "6", "7", "8", "9",
    "6">>
V_isbn13hyphens ==
  <<"9", "7", "8", "-", "0", "-", "3", "0", "6", "-", "4", "0",
    "6", "1", "5", "-", "7">>
V_urnIsbn ==
  <<"u", "r", "n", ":", "i", "s", "b", "n", ":", "9", "7", "8",
    "0", "3", "0", "6", "4", "0", "6", "1", "5", "7">>
V_uuid == <<"u", "r", "n", ":", "u", "u", "i", "d", ":", "1", "2", "a", "b">>
V_asin == <<"B", "0", "0", "0", "A", "B", "C", "1", "2", "3">>
V_isbn10padded ==
  <<" ", "0", "-", "3", "0", "6", "-", "4", "0", "6", "1", "5",
    "-", "2", " ">>
V_notIsbn == <<"1", "2", "3", "4", "5">>
Id_isbn == <<"i", "s", "b", "n", "-", "i", "d">>
Id_asin == <<"a", "s", "i", "n">>
Id_uid == <<"u", "i", "d">>
Id_refined == <<"r", "e", "f", "i", "n", "e", "d">>
Id_title == <<"t", "1">>
Id_oldCreator == <<"c", "r", "e", "a", "t", "o", "r", "-", "7">>
Id_author == <<"a", "u", "t", "h", "o", "r", "1">>
Id_img1 == <<"i", "m", "g", "1">>
Id_img2 == <<"i", "m", "g", "2">>
Id_img3 == <<"i", "m", "g", "3">>
Id_myCover == <<"m", "y", "-", "C", "o", "v", "e", "r">>
Id_nav == <<"n", "a", "v">>
Id_missing == <<"g", "o", "n", "e">>
Href_a == <<"a", ".", "p", "n", "g">>
Href_b == <<"b", ".", "j", "p", "g">>
Href_c == <<"c", ".", "p", "n", "g">>
Href_page == <<"c", "o", "v", "e", "r", ".", "x", "h", "t", "m", "l">>
Href_nav == <<"n", "a", "v", ".", "x", "h", "t", "m", "l">>
Mime_png == <<"i", "m", "a", "g", "e", "/", "p", "n", "g">>
Mime_xhtml ==
  <<"a", "p", "p", "l", "i", "c", "a", "t", "i", "o", "n", "/",
    "x", "h", "t", "m", "l", "+", "x", "m", "l">>
Props_nav == <<"n", "a", "v">>
Path_opfInDir ==
  <<"O", "E", "B", "P", "S", "/", "c", "o", "n", "t", "e", "n",
    "t", ".", "o", "p", "f">>
Path_opfAtRoot == <<"c", "o", "n", "t", "e", "n", "t", ".", "o", "p", "f">>
Version_2 == <<"2", ".", "0">>
Version_3 == <<"3", ".", "0">>
V_title == <<"F", "o", "o">>
V_subtitle == <<"A", " ", "T", "a", "l", "e">>
V_oldTitle == <<"O", "l", "d">>
V_author == <<"A", ".", " ", "W", "r", "i", "t", "e", "r">>
V_fileAs == <<"W", "r", "i", "t", "e", "r", ",", " ", "A", ".">>
V_editor == <<"E", ".", " ", "D", "i", "t", "o", "r">>
V_edt == <<"e", "d", "t">>
V_series == <<"S", "a", "g", "a">>
V_oldSeries == <<"C", "y", "c", "l", "e">>
V_index == <<"2">>
V_lang == <<"e", "n", "g">>
V_oldLang == <<"f", "r">>
V_publisher == <<"P", "r", "e", "s", "s">>
V_subject == <<"F", "i", "c", "t", "i", "o", "n">>
V_oldModified ==
  <<"2", "0", "2", "0", "-", "0", "1", "-", "0", "1", "T", "0",
    "0", ":", "0", "0", ":", "0", "0", "Z">>
Str_modifiedPrefix ==
  <<"2", "0", "2", "4", "-", "0", "1", "-", "0", "1", "T", "0",
    "0", ":", "0", "0", ":", "0">>

\* A byte buffer is a sequence of bytes; the first begins with the JPEG magic.
Bytes_jpeg == <<255, 216, 1>>
Bytes_png == <<137, 80, 2>>
Bytes_oldA == <<137, 80, 10>>
Bytes_oldB == <<255, 216, 11>>
Bytes_oldC == <<137, 80, 12>>
Bytes_page == <<60, 104, 13>>
Bytes_nav == <<60, 110, 14>>

\* new Date().toISOString() without milliseconds: the clock reads one second
\* later at every write
Timestamp(n) == Str_modifiedPrefix \o ToDecimal(n % 10) \o <<"Z">>

\* ------------------------------------------------------------------------
\* Update sets
\* ------------------------------------------------------------------------

\* A field that is absent is the empty sequence.  subjectsGiven tells an
\* update set that carries a subjects array (possibly empty) from one that
\* carries none; writeEpub itself reads only the array's length.
NoUpdates ==
  [title |-> <<>>, subtitle |-> <<>>, publisher |-> <<>>, date |-> <<>>,
   description |-> <<>>, rights |-> <<>>, language |-> <<>>,
   authors |-> <<>>, author |-> <<>>, identifier |-> <<>>,
   subjects |-> <<>>, subjectsGiven |-> FALSE,
   series |-> <<>>, seriesIndex |-> <<>>]

AuthorObject(name, role, fileAs) ==
  [isString |-> FALSE, name |-> name, role |-> role, fileAs |-> fileAs]

\* §8's end-to-end update, with a second author, a series and a language
FullUpdates ==
  [NoUpdates EXCEPT
     !.title = V_title, !.subtitle = V_subtitle,
     !.authors = <<AuthorObject(V_author, Str_aut, V_fileAs),
                   AuthorObject(V_editor, V_edt, <<>>)>>,
     !.identifier = V_isbn13,
     !.publisher = V_publisher, !.language = V_lang,
     !.subjects = <<V_subject>>, !.subjectsGiven = TRUE,
     !.series = V_series, !.seriesIndex = V_index]

LegacyAuthorUpdates ==
  [NoUpdates EXCEPT !.author = V_author, !.identifier = V_notIsbn]

IdentifierUpdates(value) == [NoUpdates EXCEPT !.identifier = value]

\* ------------------------------------------------------------------------
\* Documents
\* ------------------------------------------------------------------------

Package(version, uniqueIdentifier) ==
  [hasAttrs |-> TRUE, version |-> version, uniqueIdentifier |-> uniqueIdentifier]

\* A package element without attributes
BarePackage == [hasAttrs |-> FALSE, version |-> <<>>, uniqueIdentifier |-> <<>>]

Identifier(val, id, scheme) == [val |-> val, id |-> id, scheme |-> scheme]

ManifestItem(id, href, mediaType, properties) ==
  [id |-> id, href |-> href, mediaType |-> mediaType, properties |-> properties]

Manifest(items) == [present |-> TRUE, item |-> items]

NoManifest == [present |-> FALSE, item |-> <<>>]

BaseMeta ==
  [dcTitle |-> <<[val |-> V_oldTitle, id |-> Id_title]>>,
   dcCreator |-> <<[val |-> V_editor, id |-> Id_oldCreator, role |-> <<>>]>>,
   dcContributor |-> <<>>,
   dcIdentifier |-> <<>>,
   dcSubject |-> <<>>,
   dcPublisher |-> <<>>, dcDate |-> <<>>, dcDescription |-> <<>>,
   dcRights |-> <<>>,
   dcLanguage |-> <<V_oldLang>>,
   meta |-> <<>>]

Document(pkg, identifiers, metas, manifest) ==
  [pkg |-> pkg,
   meta |-> [BaseMeta EXCEPT !.dcIdentifier = identifiers, !.meta = metas],
   manifest |-> manifest]

\* The refinements and meta elements an existing document may carry
OldMetas ==
  <<Refinement("title-type", "", Hash(Id_title), Str_main),
    Refinement("file-as", "", Hash(Id_oldCreator), V_fileAs),
    Refinement("role", "marc:relators", Hash(Id_oldCreator), V_edt),
    Refinement("dcterms:modified", "", <<>>, V_oldModified),
    MetaElement("belongs-to-collection", "", "", <<>>, <<>>, Str_collection, V_oldSeries),
    Refinement("collection-type", "", Hash(Str_collection), Str_series)>>

Item_img1 == ManifestItem(Id_img1, Href_a, Mime_png, <<>>)
Item_img2 == ManifestItem(Id_img2, Href_b, Str_imageJpeg, Str_coverImage)
Item_myCover == ManifestItem(Id_myCover, Href_c, Mime_png, <<>>)
Item_page == ManifestItem(Str_coverImage, Href_page, Mime_xhtml, <<>>)
Item_noHref == ManifestItem(Id_img3, <<>>, Mime_png, Str_coverImage)
Item_nav == ManifestItem(Id_nav, Href_nav, Mime_xhtml, Props_nav)

\* The archive of a document: the package document and the resources
Archive(opfPath, opf) ==
  LET dir == dirname(opfPath)
      files == {<<Href_a, Bytes_oldA>>, <<Href_b, Bytes_oldB>>,
                <<Href_c, Bytes_oldC>>, <<Href_page, Bytes_page>>,
                <<Href_nav, Bytes_nav>>}
      paths == {pathJoin(dir, f[1]) : f \in files}
  IN  [p \in paths \cup {opfPath} |->
         IF p = opfPath THEN BuildObject(opf)
         ELSE [bytes |-> (CHOOSE f \in files : pathJoin(dir, f[1]) = p)[2]]]

\* ------------------------------------------------------------------------
\* State
\* ------------------------------------------------------------------------

VARIABLES
  opf,        \* the parsed package document writeEpub mutates in place
  zip,        \* the archive: path -> [bytes] or [xml]
  opfPath,    \* the path of the package document in the archive
  pre,        \* the document as it was when the last writeEpub call began
  last,       \* the arguments and locals of the last writeEpub call
  extracted,  \* the last result of extractMetadata, and after which write
  coverData,  \* the last result of getCoverImage, and after which write
  normalized, \* the metadata form under /normalize: the calls so far, the
              \* record before the last call, the record and warnings now
  languageCall, \* the last call of normalizeLanguageCode: its argument and
              \* the record it returned
  sessions,   \* the ids in the server's sessions map; session i holds
              \* documents[i]
  documents,  \* the parsed documents the server has created, one per upload
  downloads,  \* the /download requests in flight
  timers      \* the session ids with a pending deletion timer

coreVars == <<opf, zip, opfPath, pre, last, extracted, coverData>>

serverVars == <<sessions, documents, downloads, timers>>

vars == <<opf, zip, opfPath, pre, last, extracted, coverData, normalized,
          languageCall, sessions, documents, downloads, timers>>

\* The number of writeEpub calls on one document
MaxWrites == 2

\* last.n counts the writeEpub calls so far and last.uidAssignments those
\* of them that changed the package's unique-identifier attribute;
\* last.returned is the value the call returned and last.zipBefore the
\* archive when the call began; last.previous holds the arguments of the
\* call before it and the document that call began with, and is empty
\* for the first call.
NoCall ==
  [n |-> 0, updates |-> NoUpdates, coverBuffer |-> <<>>, storeThrows |-> FALSE,
   coverItem |-> 0, coverPath |-> <<>>, coverThrew |-> FALSE, warnings |-> <<>>,
   returned |-> <<>>, zipBefore |-> <<>>,
   previous |-> <<>>,
   uidAssignments |-> 0]

\* No /normalize call yet, on an empty form
NoNormalize ==
  [n |-> 0, before |-> <<>>, metadata |-> <<>>, warnings |-> <<>>]

\* No normalizeLanguageCode call yet, on the empty tag
NoLanguage ==
  [called |-> FALSE, code |-> <<>>, result |-> <<>>]

\* The server right after start
ServerIdle ==
  /\ sessions = {}
  /\ documents = <<>>
  /\ downloads = <<>>
  /\ timers = {}

InitCore(docs, paths) ==
  /\ opf \in docs
  /\ opfPath \in paths
  /\ zip = Archive(opfPath, opf)
  /\ pre = opf
  /\ last = NoCall
  /\ extracted = [called |-> FALSE, at |-> 0, metadata |-> <<>>]
  /\ coverData = [called |-> FALSE, at |-> 0, item |-> 0, result |-> <<>>]

InitWith(docs, paths) ==
  /\ InitCore(docs, paths)
  /\ normalized = NoNormalize
  /\ languageCall = NoLanguage
  /\ ServerIdle

\* One writeEpub call (the /download handler's call), with its arguments
\* drawn from the given sets.
WriteEpub(updateSets, coverBuffers, storeOutcomes) ==
  /\ last.n < MaxWrites
  /\ \E updates \in updateSets, coverBuffer \in coverBuffers,
        storeThrows \in storeOutcomes :
       /\ storeThrows => coverBuffer # <<>>
       /\ \E r \in {writeEpub(zip, opfPath, opf, updates, coverBuffer,
                              Timestamp(last.n + 1), storeThrows)} :
              /\ opf' = r.opf
              /\ zip' = r.zip
              /\ pre' = opf
              /\ last' = [n |-> last.n + 1, updates |-> updates,
                          coverBuffer |-> coverBuffer, storeThrows |-> storeThrows,
                          coverItem |-> r.coverItem, coverPath |-> r.coverPath,
                          coverThrew |-> r.coverThrew, warnings |-> r.warnings,
                          returned |-> r.returned, zipBefore |-> zip,
                          previous |->
                            IF last.n = 0 THEN <<>>
                            ELSE <<[updates |-> last.updates,
                                    coverBuffer |-> last.coverBuffer,
                                    storeThrows |-> last.storeThrows,
                                    pre |-> pre]>>,
                          uidAssignments |->
                            IF r.opf.pkg.uniqueIdentifier # opf.pkg.uniqueIdentifier
                            THEN last.uidAssignments + 1
                            ELSE last.uidAssignments]
  /\ UNCHANGED <<opfPath, extracted, coverData, normalized, languageCall>>
  /\ UNCHANGED serverVars

\* extractMetadata on the current document (the /upload handler's call)
ExtractMetadata ==
  /\ extracted' = [called |-> TRUE, at |-> last.n,
                   metadata |-> <<extractMetadata(opf.meta)>>]
  /\ extracted' # extracted
  /\ UNCHANGED <<opf, zip, opfPath, pre, last, coverData, normalized, languageCall>>
  /\ UNCHANGED serverVars

\* getCoverImage on the current document and archive
GetCoverImage ==
  /\ coverData' = [called |-> TRUE, at |-> last.n,
                   item |-> ReaderCoverItem(opf),
                   result |-> getCoverImage(zip, opf, opfPath)]
  /\ coverData' # coverData
  /\ UNCHANGED <<opf, zip, opfPath, pre, last, extracted, normalized, languageCall>>
  /\ UNCHANGED serverVars

\* ------------------------------------------------------------------------
\* Spec: documents of both versions under whole update sets
\* ------------------------------------------------------------------------

Packages ==
  {Package(Version_2, <<>>), Package(Version_2, Id_uid),
   Package(Version_3, <<>>), Package(Version_3, Id_uid), BarePackage}

Docs ==
  {Document(pkg, identifiers, metas, manifest) :
     pkg \in Packages,
     identifiers \in {<<>>, <<Identifier(V_uuid, Id_uid, "")>>,
                      <<Identifier(V_isbn10, Id_isbn, "ISBN")>>},
     metas \in {<<>>, OldMetas},
     manifest \in {NoManifest, Manifest(<<Item_nav, Item_myCover>>)}}

UpdateSets ==
  {NoUpdates, FullUpdates, LegacyAuthorUpdates, IdentifierUpdates(V_isbn10x)}

Init == InitWith(Docs, {Path_opfInDir})

Next == WriteEpub(UpdateSets, {<<>>, <<Bytes_jpeg>>}, {FALSE})

Spec == Init /\ [][Next]_vars

\* ------------------------------------------------------------------------
\* Properties checked under Spec
\* ------------------------------------------------------------------------

\* The metadata properties that exist only in version 3
Version3Properties ==
  {"dcterms:modified", "title-type", "identifier-type", "file-as", "role"}

\* C1: a write to a document whose version starts with "2" adds no
\* dcterms:modified, title-type, identifier-type, file-as or role element
\* that was not in the metadata block before the write, and no manifest
\* entry gains a "cover-image" properties value.  (Holding at every write,
\* it holds over every sequence of writes.)
VersionTwoGuard ==
  (last.n > 0 /\ isEpub2(pre)) =>
    /\ \A i \in 1..Len(opf.meta.meta) :
         opf.meta.meta[i].property \in Version3Properties =>
           \E j \in 1..Len(pre.meta.meta) : pre.meta.meta[j] = opf.meta.meta[i]
    /\ \A i \in 1..Len(opf.manifest.item) :
         HasCoverImageProperty(opf.manifest.item[i]) =>
           /\ i <= Len(pre.manifest.item)
           /\ HasCoverImageProperty(pre.manifest.item[i])

\* A version 2 document after a write that supplied authors with file-as and
\* role, appended a new ISBN and synthesized a new cover entry
VersionTwoGuardWitness ==
  /\ last.n > 0
  /\ isEpub2(pre)
  /\ last.updates = FullUpdates
  /\ Len(opf.meta.dcIdentifier) = Len(pre.meta.dcIdentifier) + 1
  /\ last.coverBuffer # <<>>
  /\ last.coverItem = 0
  /\ Len(opf.manifest.item) = Len(pre.manifest.item) + 1

\* C5: a write never changes a unique-identifier attribute that has a value;
\* when a write does set it, it was absent, the write appended a new
\* identifier entry and the attribute is that entry's id; and over any
\* sequence of writes it is set at most once.
UniqueIdentifierSetOnce ==
  /\ last.uidAssignments <= 1
  /\ last.n > 0 =>
       /\ pre.pkg.uniqueIdentifier # <<>> =>
            opf.pkg.uniqueIdentifier = pre.pkg.uniqueIdentifier
       /\ opf.pkg.uniqueIdentifier # pre.pkg.uniqueIdentifier =>
            /\ pre.pkg.uniqueIdentifier = <<>>
            /\ Len(opf.meta.dcIdentifier) = Len(pre.meta.dcIdentifier) + 1
            /\ opf.pkg.uniqueIdentifier =
                 opf.meta.dcIdentifier[Len(opf.meta.dcIdentifier)].id

\* A second write with an identifier update on a document whose
\* unique-identifier an earlier write had set
UniqueIdentifierSetOnceWitness ==
  /\ last.n = 2
  /\ last.uidAssignments = 1
  /\ last.updates.identifier # <<>>
  /\ UpdateIsISBN(last.updates)
  /\ pre.pkg.uniqueIdentifier = Str_pubId
  /\ opf.pkg.uniqueIdentifier = Str_pubId

\* ------------------------------------------------------------------------
\* SpecIdentifiers: documents with varied identifier lists under identifier
\* updates, read back by extractMetadata
\* ------------------------------------------------------------------------

\* The ONIX codelist 5 code of a DOI
Str_06 == <<"0", "6">>

Entry_isbn10 == Identifier(V_isbn10, Id_isbn, "")
Entry_isbn13Scheme == Identifier(V_isbn13, <<>>, "ISBN")
Entry_urn == Identifier(V_urnIsbn, Id_uid, "URN")
Entry_asin == Identifier(V_asin, Id_asin, "ASIN")
Entry_uuid == Identifier(V_uuid, Id_uid, "")
Entry_refined == Identifier(V_asin, Id_refined, "")
Entry_uuidPubId == Identifier(V_uuid, Str_pubId, "")

IdentifierLists ==
  {<<>>,
   <<Entry_uuid>>,
   <<Entry_isbn10, Entry_asin>>,
   <<Entry_asin, Entry_isbn10>>,
   <<Entry_isbn13Scheme>>,
   <<Entry_isbn10, Entry_isbn13Scheme>>,
   <<Entry_urn, Entry_asin>>,
   <<Entry_urn, Entry_isbn13Scheme>>,
   <<Entry_refined>>,
   <<Entry_uuid, Entry_refined>>,
   <<Entry_uuidPubId>>,
   <<Entry_asin, Entry_isbn13Scheme, Entry_uuid>>}

IdentifierTypeMetas ==
  {<<>>,
   <<Refinement("identifier-type", "onix:codelist5", Hash(Id_refined), Str_15)>>,
   <<Refinement("identifier-type", "", Hash(Id_refined), ToLowerCase(Str_ISBN))>>,
   <<Refinement("identifier-type", "onix:codelist5", Hash(Str_pubId), Str_06)>>}

IdentifierDocs ==
  {Document(pkg, identifiers, metas, NoManifest) :
     pkg \in {Package(Version_2, <<>>), Package(Version_3, <<>>),
              Package(Version_3, Id_uid)},
     identifiers \in IdentifierLists,
     metas \in IdentifierTypeMetas}

IdentifierUpdateSets ==
  {NoUpdates,
   IdentifierUpdates(V_isbn13other),
   IdentifierUpdates(V_isbn13hyphens),
   IdentifierUpdates(V_isbn10padded),
   IdentifierUpdates(V_notIsbn)}

InitIdentifiers == InitWith(IdentifierDocs, {Path_opfInDir})

NextIdentifiers ==
  \/ WriteEpub(IdentifierUpdateSets, {<<>>}, {FALSE})
  \/ ExtractMetadata

SpecIdentifiers == InitIdentifiers /\ [][NextIdentifiers]_vars

\* The indices of the identifier entries the last write changed
ChangedIdentifiers ==
  {i \in 1..Len(pre.meta.dcIdentifier) :
     opf.meta.dcIdentifier[i] # pre.meta.dcIdentifier[i]}

\* C2: on a write with an identifier update, every existing dc:identifier
\* entry that does not classify as an ISBN (by scheme, identifier-type
\* refinement or ISBN-10/13 pattern) is the same entry at the same index
\* after the write, and no entry is removed; a new entry only goes to the end.
IdentifiersPreserved ==
  (last.n > 0 /\ last.updates.identifier # <<>>) =>
    /\ Len(opf.meta.dcIdentifier) >= Len(pre.meta.dcIdentifier)
    /\ \A i \in 1..Len(pre.meta.dcIdentifier) :
         ~ReaderIsISBN(pre.meta, pre.meta.dcIdentifier[i]) =>
           opf.meta.dcIdentifier[i] = pre.meta.dcIdentifier[i]

\* A write that rewrote the ISBN entry of a list that also holds a
\* non-ISBN entry, before or after it
IdentifiersPreservedWitness ==
  /\ last.n > 0
  /\ UpdateIsISBN(last.updates)
  /\ ChangedIdentifiers # {}
  /\ \E i \in 1..Len(pre.meta.dcIdentifier) :
       /\ ~ReaderIsISBN(pre.meta, pre.meta.dcIdentifier[i])
       /\ pre.meta.dcIdentifier[i].scheme = "ASIN"
       /\ i > 1

\* C3: a single write replaces the value of at most one existing
\* dc:identifier entry.
AtMostOneIdentifierReplaced ==
  last.n > 0 => Cardinality(ChangedIdentifiers) <= 1

\* C4 as stated: an entry rewritten in place keeps exactly the id it had
\* (none invented) and exactly the scheme attribute it had.
RewriteKeepsIdAndScheme ==
  last.n > 0 =>
    \A i \in ChangedIdentifiers :
      /\ opf.meta.dcIdentifier[i].id = pre.meta.dcIdentifier[i].id
      /\ opf.meta.dcIdentifier[i].scheme = pre.meta.dcIdentifier[i].scheme

\* C4 as amended: an entry rewritten in place keeps the id it had when it
\* had one and gets the id "pub-id" when it had none; it has a scheme
\* attribute iff it had one, and that attribute then reads "ISBN"; its value
\* is the sanitized update.
RewriteKeepsIdAndHasIsbnScheme ==
  last.n > 0 =>
    \A i \in ChangedIdentifiers :
      /\ opf.meta.dcIdentifier[i].id =
           IF pre.meta.dcIdentifier[i].id # <<>>
           THEN pre.meta.dcIdentifier[i].id ELSE Str_pubId
      /\ opf.meta.dcIdentifier[i].scheme =
           IF pre.meta.dcIdentifier[i].scheme # "" THEN "ISBN" ELSE ""
      /\ opf.meta.dcIdentifier[i].val =
           sanitizeMetadataString(last.updates.identifier)

\* A write that rewrote an entry with an id and a scheme other than "ISBN",
\* and an entry without an id
RewriteKeepsIdAndHasIsbnSchemeWitness ==
  /\ last.n > 0
  /\ \E i \in ChangedIdentifiers :
       /\ pre.meta.dcIdentifier[i].id = Id_uid
       /\ pre.meta.dcIdentifier[i].scheme = "URN"
       /\ opf.meta.dcIdentifier[i].scheme = "ISBN"
  /\ \E i \in ChangedIdentifiers :
       /\ pre.meta.dcIdentifier[i].id = <<>>
       /\ opf.meta.dcIdentifier[i].id = Str_pubId

\* C6: after a write whose identifier update validates as ISBN-10/13,
\* extractMetadata on the written document returns the (sanitized) update
\* value as `identifier`.
ExtractReturnsWrittenISBN ==
  (/\ extracted.called
   /\ extracted.at = last.n
   /\ last.n > 0
   /\ last.updates.identifier # <<>>
   /\ UpdateIsISBN(last.updates)) =>
    extracted.metadata[1].identifier =
      sanitizeMetadataString(last.updates.identifier)

\* The identifier-type refinements of a document, in document order
IdentifierTypeRefinements(doc) ==
  SelectSeq(doc.meta.meta, LAMBDA m : m.property = "identifier-type")

\* The update value, sanitized and with hyphens and white space removed,
\* has the shape of an ISBN-10 or an ISBN-13
IsValidISBN(value) ==
  LET clean == StripHyphensSpaces(sanitizeMetadataString(value))
  IN  MatchesISBN10(clean) \/ MatchesISBN13(clean)

\* C21: a write whose identifier update does not validate as ISBN-10 or
\* ISBN-13 leaves the dc:identifier list as it was (nothing appended, no
\* entry changed), leaves the identifier-type refinements as they were and
\* leaves the package's unique-identifier attribute unchanged.
NonIsbnUpdateWritesNothing ==
  (/\ last.n > 0
   /\ last.updates.identifier # <<>>
   /\ ~IsValidISBN(last.updates.identifier)) =>
    /\ opf.meta.dcIdentifier = pre.meta.dcIdentifier
    /\ IdentifierTypeRefinements(opf) = IdentifierTypeRefinements(pre)
    /\ opf.pkg.uniqueIdentifier = pre.pkg.uniqueIdentifier

\* A version 3 document without unique-identifier that holds an ISBN entry
\* and an identifier-type refinement, written with a value that is no ISBN
NonIsbnUpdateWritesNothingWitness ==
  /\ last.n > 0
  /\ last.updates.identifier = V_notIsbn
  /\ ~isEpub2(pre)
  /\ pre.pkg.uniqueIdentifier = <<>>
  /\ IdentifierTypeRefinements(pre) # <<>>
  /\ \E i \in 1..Len(pre.meta.dcIdentifier) :
       ReaderIsISBN(pre.meta, pre.meta.dcIdentifier[i])
  /\ opf.meta.dcIdentifier = pre.meta.dcIdentifier

\* No identifier entry of the document classifies as an ISBN (by scheme,
\* identifier-type refinement or pattern)
NoIsbnEntry(doc) ==
  \A i \in 1..Len(doc.meta.dcIdentifier) :
    ~ReaderIsISBN(doc.meta, doc.meta.dcIdentifier[i])

\* The identifier-type refinements of a document that target the given id
IdentifierTypesOf(doc, id) ==
  SelectSeq(doc.meta.meta, LAMBDA m :
    m.property = "identifier-type" /\ m.refines = Hash(id))

\* C22: when no existing identifier classifies as an ISBN and the update
\* validates, the write appends exactly one entry at the end of the list
\* and keeps the others; on a version 3 document exactly one identifier-type
\* refinement targets the new entry's id afterwards, with value "15" for an
\* ISBN-13 and "02" for an ISBN-10, and on a version 2 document no
\* identifier-type refinement is added.
NewIsbnAppendedWithOneRefinement ==
  (/\ last.n > 0
   /\ last.updates.identifier # <<>>
   /\ IsValidISBN(last.updates.identifier)
   /\ NoIsbnEntry(pre)) =>
    LET old == pre.meta.dcIdentifier
        new == opf.meta.dcIdentifier
        clean == StripHyphensSpaces(sanitizeMetadataString(last.updates.identifier))
    IN  /\ Len(new) = Len(old) + 1
        /\ SubSeq(new, 1, Len(old)) = old
        /\ new[Len(new)].val = sanitizeMetadataString(last.updates.identifier)
        /\ IF isEpub2(pre)
           THEN IdentifierTypeRefinements(opf) = IdentifierTypeRefinements(pre)
           ELSE LET targeting == IdentifierTypesOf(opf, new[Len(new)].id)
                IN  /\ Len(targeting) = 1
                    /\ targeting[1].val =
                         IF MatchesISBN13(clean) THEN Str_15 ELSE Str_02

\* A version 3 document whose only identifier-type refinement targets
\* "#pub-id" with another code gets an ISBN-10 appended
NewIsbnAppendedWithOneRefinementWitness ==
  /\ last.n > 0
  /\ last.updates.identifier = V_isbn10padded
  /\ NoIsbnEntry(pre)
  /\ ~isEpub2(pre)
  /\ IdentifierTypesOf(pre, Str_pubId) # <<>>
  /\ Len(opf.meta.dcIdentifier) = Len(pre.meta.dcIdentifier) + 1
  /\ Len(IdentifierTypesOf(opf, Str_pubId)) = 1
  /\ IdentifierTypesOf(opf, Str_pubId)[1].val = Str_02

\* ------------------------------------------------------------------------
\* SpecCover: documents with varied manifests and cover pointers, read by
\* getCoverImage and written with a cover buffer
\* ------------------------------------------------------------------------

Manifests ==
  {NoManifest,
   Manifest(<<Item_nav>>),
   Manifest(<<Item_img1, Item_img2>>),
   Manifest(<<Item_img2, Item_nav, Item_img1>>),
   Manifest(<<Item_nav, Item_img1>>),
   Manifest(<<Item_img2>>),
   Manifest(<<Item_nav, Item_myCover>>),
   Manifest(<<Item_myCover, Item_img2, Item_img1>>),
   Manifest(<<Item_page, Item_nav>>),
   Manifest(<<Item_noHref>>)}

CoverMetas ==
  {<<>>,
   <<NamedMeta("cover", Id_img1)>>,
   <<NamedMeta("cover", Id_missing)>>,
   <<NamedMeta("cover", Id_nav)>>,
   <<NamedMeta("cover", <<>>)>>}

CoverDocs ==
  {Document(pkg, <<Entry_uuid>>, metas, manifest) :
     pkg \in {Package(Version_2, Id_uid), Package(Version_3, Id_uid)},
     metas \in CoverMetas,
     manifest \in Manifests}

InitCover == InitWith(CoverDocs, {Path_opfInDir, Path_opfAtRoot})

NextCover ==
  \/ WriteEpub({NoUpdates}, {<<>>, <<Bytes_jpeg>>, <<Bytes_png>>}, {FALSE, TRUE})
  \/ GetCoverImage

SpecCover == InitCover /\ [][NextCover]_vars

\* The meta name="cover" pointer names the manifest entry at index a and a
\* different entry carries the cover-image property
PointerAndPropertyDisagree(doc, a) ==
  /\ a \in 1..Len(doc.manifest.item)
  /\ CoverMetaContent(doc.meta.meta) # <<>>
  /\ doc.manifest.item[a].id = CoverMetaContent(doc.meta.meta)
  /\ \A j \in 1..(a - 1) : doc.manifest.item[j].id # doc.manifest.item[a].id
  /\ \E b \in 1..Len(doc.manifest.item) :
       b # a /\ HasCoverImageProperty(doc.manifest.item[b])

\* C7: when the meta name="cover" pointer names manifest entry A and a
\* different entry B carries "cover-image", getCoverImage resolves the cover
\* to entry A and returns A's resource.
PointerWinsOverProperty ==
  (coverData.called /\ coverData.at = last.n) =>
    \A a \in 1..Len(opf.manifest.item) :
      PointerAndPropertyDisagree(opf, a) =>
        /\ coverData.item = a
        /\ coverData.result =
             <<Base64(zip[pathJoin(dirname(opfPath), opf.manifest.item[a].href)].bytes)>>

\* getCoverImage has run on a document whose pointer names an entry that
\* comes after the cover-image entry in the manifest
PointerWinsOverPropertyWitness ==
  /\ coverData.called
  /\ coverData.at = last.n
  /\ \E a \in 1..Len(opf.manifest.item) :
       /\ PointerAndPropertyDisagree(opf, a)
       /\ \E b \in 1..(a - 1) : HasCoverImageProperty(opf.manifest.item[b])
       /\ coverData.item = a
       /\ coverData.result # <<>>

\* C8: the manifest entry whose resource a write with a cover buffer
\* overwrites is the entry getCoverImage locates on the document before the
\* write.
WriterOverwritesReaderCover ==
  (/\ last.n > 0
   /\ last.coverBuffer # <<>>
   /\ last.coverItem # 0
   /\ last.coverPath # <<>>) =>
    last.coverItem = ReaderCoverItem(pre)

\* C9: after a write with a cover buffer in which the writer found no
\* existing cover entry, getCoverImage on the written document and archive
\* returns the supplied bytes.
NewCoverIsReadBack ==
  (/\ last.n > 0
   /\ last.coverBuffer # <<>>
   /\ last.coverItem = 0
   /\ ~last.coverThrew) =>
    getCoverImage(zip, opf, opfPath) = <<Base64(last.coverBuffer[1])>>

\* The cover state of a document: its manifest entries and its
\* meta name="cover" pointers
CoverState(doc) ==
  [items |-> doc.manifest.item,
   pointers |-> SelectSeq(doc.meta.meta, LAMBDA m : m.name = "cover")]

\* C10: when a step of the cover replacement fails, the write still
\* completes (the package document is stored) and the document's cover state
\* is what it was before.
FailedCoverStepLeavesCoverState ==
  (last.n > 0 /\ last.coverThrew) =>
    /\ zip[opfPath] = BuildObject(opf)
    /\ CoverState(opf) = CoverState(pre)

\* The archive paths whose entry the last write added or changed
ChangedPaths ==
  {p \in DOMAIN zip : p \notin DOMAIN last.zipBefore \/ zip[p] # last.zipBefore[p]}

\* The path of the cover resource of the last write, spelled out for the two
\* package document paths: the href of the cover item the writer located, or
\* images/cover.jpg, under the directory of the package document
ExpectedCoverPath ==
  LET href == IF last.coverItem # 0
              THEN pre.manifest.item[last.coverItem].href
              ELSE <<"i", "m", "a", "g", "e", "s", "/", "c", "o", "v", "e", "r",
                     ".", "j", "p", "g">>
  IN  IF opfPath = Path_opfInDir
      THEN <<"O", "E", "B", "P", "S", "/">> \o href
      ELSE href

Elements(list) == {list[i] : i \in 1..Len(list)}

\* The elements of the metadata block as a set, the modified timestamp
\* left out
MetadataElements(doc) ==
  [f \in {"dcTitle", "dcCreator", "dcContributor", "dcIdentifier", "dcSubject",
          "dcPublisher", "dcDate", "dcDescription", "dcRights", "dcLanguage"} |->
     Elements(doc.meta[f])]
  @@ [f \in {"meta"} |->
        {m \in Elements(doc.meta.meta) : m.property # "dcterms:modified"}]

\* C28: a write with the update set and cover of the write before it
\* changes nothing but the modified timestamp and the order of the metas:
\* the document has the same set of metadata elements, the same identifier
\* list, the same manifest and the same unique-identifier as after the
\* first of the two writes.
WriteTwiceEqualsOnce ==
  (/\ last.n >= 2
   /\ last.previous # <<>>
   /\ last.previous[1].updates = last.updates
   /\ last.previous[1].coverBuffer = last.coverBuffer
   /\ last.previous[1].storeThrows = last.storeThrows) =>
    /\ MetadataElements(opf) = MetadataElements(pre)
    /\ opf.meta.dcIdentifier = pre.meta.dcIdentifier
    /\ opf.manifest = pre.manifest
    /\ opf.pkg.uniqueIdentifier = pre.pkg.uniqueIdentifier

\* ------------------------------------------------------------------------
\* SpecFields: documents that hold every metadata field, with refinements,
\* under update sets that carry one field or a few
\* ------------------------------------------------------------------------

Id_subtitle == <<"t", "2">>
Id_creator0 == <<"c", "r", "e", "a", "t", "o", "r", "-", "0">>
Id_creator1 == <<"c", "r", "e", "a", "t", "o", "r", "-", "1">>
V_oldSubtitle == <<"P", "a", "r", "t">>
V_oldSubject == <<"H", "i", "s", "t", "o", "r", "y">>
V_blank == <<" ", "<SOH>", "<TAB>">>
V_paddedAuthor == <<" ", "B", ".", " ", "P", "e", "n", " ">>
V_paddedSubject == <<" ", "S", "a", "g", "a", "s", "<SOH>">>
V_fooATale == <<"F", "o", "o", ":", " ", "A", " ", "T", "a", "l", "e">>

Title(val, id) == [val |-> val, id |-> id]

Creator(val, id, role) == [val |-> val, id |-> id, role |-> role]

\* An author given as a plain string
AuthorString(name) ==
  [isString |-> TRUE, name |-> name, role |-> <<>>, fileAs |-> <<>>]

\* The title lists of the documents: none, one without text, one plain, and a
\* main title with a subtitle
TitleLists ==
  {<<>>,
   <<Title(<<>>, <<>>)>>,
   <<Title(V_oldTitle, Id_title)>>,
   <<Title(V_oldTitle, Id_title), Title(V_oldSubtitle, Id_subtitle)>>}

\* Refinements of the titles, of creators under several ids, the series of
\* either version, and the modified timestamp
FieldMetas ==
  <<Refinement("title-type", "", Hash(Id_title), Str_main),
    Refinement("title-type", "", Hash(Id_subtitle), Str_subtitle),
    Refinement("file-as", "", Hash(Id_creator0), V_fileAs),
    Refinement("role", "marc:relators", Hash(Id_creator0), V_edt),
    Refinement("file-as", "", Hash(Id_author), V_fileAs),
    MetaElement("belongs-to-collection", "", "", <<>>, <<>>, Str_collection, V_oldSeries),
    Refinement("collection-type", "", Hash(Str_collection), Str_series),
    Refinement("group-position", "", Hash(Str_collection), V_index),
    NamedMeta("calibre:series", V_oldSeries),
    Refinement("dcterms:modified", "", <<>>, V_oldModified)>>

FieldDocs ==
  {[pkg |-> pkg,
    meta |-> [BaseMeta EXCEPT
                !.dcTitle = titles,
                !.dcCreator = creators,
                !.dcIdentifier = identifiers,
                !.dcSubject = subjects,
                !.dcPublisher = <<V_publisher>>,
                !.meta = metas],
    manifest |-> Manifest(<<Item_nav>>)] :
     pkg \in {Package(Version_2, Id_uid), Package(Version_3, Id_uid)},
     titles \in TitleLists,
     creators \in {<<Creator(V_editor, Id_creator0, <<>>)>>,
                   <<Creator(V_editor, Id_author, V_edt),
                     Creator(V_author, <<>>, <<>>)>>},
     identifiers \in {<<>>, <<Identifier(V_uuid, Id_uid, "")>>},
     subjects \in {<<>>, <<V_oldSubject, V_subject>>},
     metas \in {<<>>, FieldMetas}}

TitleUpdates(title, subtitle) ==
  [NoUpdates EXCEPT !.title = title, !.subtitle = subtitle]

SubjectUpdates(subjects) ==
  [NoUpdates EXCEPT !.subjects = subjects, !.subjectsGiven = TRUE]

AuthorsUpdates(authors) == [NoUpdates EXCEPT !.authors = authors]

FieldUpdateSets ==
  {NoUpdates,
   TitleUpdates(V_title, <<>>),
   TitleUpdates(V_title, V_subtitle),
   TitleUpdates(V_title, V_blank),
   TitleUpdates(V_blank, <<>>),
   SubjectUpdates(<<>>),
   SubjectUpdates(<<V_paddedSubject, V_subject>>),
   AuthorsUpdates(<<AuthorObject(V_author, Str_aut, V_fileAs),
                    AuthorObject(V_paddedAuthor, V_edt, <<>>)>>),
   AuthorsUpdates(<<AuthorString(V_paddedAuthor)>>),
   [NoUpdates EXCEPT !.author = V_paddedAuthor],
   [NoUpdates EXCEPT !.series = V_series, !.seriesIndex = V_index],
   IdentifierUpdates(V_isbn13)}

InitFields == InitWith(FieldDocs, {Path_opfInDir})

NextFields == WriteEpub(FieldUpdateSets, {<<>>}, {FALSE})

SpecFields == InitFields /\ [][NextFields]_vars

\* ------------------------------------------------------------------------
\* Properties checked under SpecFields
\* ------------------------------------------------------------------------

\* The meta elements of a document that refine one of the given elements
RefinementsOf(doc, elements) ==
  SelectSeq(doc.meta.meta, LAMBDA m :
    \E i \in 1..Len(elements) :
      elements[i].id # <<>> /\ m.refines = Hash(elements[i].id))

\* The elements that represent the title and subtitle, the creators, the
\* identifiers and the series of a document, refinements included
TitleElements(doc) ==
  [elements |-> doc.meta.dcTitle,
   refinements |-> RefinementsOf(doc, doc.meta.dcTitle)]

CreatorElements(doc) ==
  [elements |-> doc.meta.dcCreator,
   refinements |-> RefinementsOf(doc, doc.meta.dcCreator)]

IdentifierElements(doc) ==
  [elements |-> doc.meta.dcIdentifier,
   refinements |-> RefinementsOf(doc, doc.meta.dcIdentifier)]

SeriesElements(doc) ==
  LET collections == SelectSeq(doc.meta.meta, LAMBDA m :
                       m.property = "belongs-to-collection")
  IN  [elements |-> SelectSeq(doc.meta.meta, LAMBDA m :
                      \/ m.property = "belongs-to-collection"
                      \/ m.name = "calibre:series"
                      \/ m.name = "calibre:series_index"),
       refinements |-> RefinementsOf(doc, collections)]

\* C11: a field the update set omits keeps its elements and their
\* refinements through writeEpub: title and subtitle, authors, identifier,
\* language, publisher, date, description, rights, subjects and series.
OmittedFieldsUntouched ==
  LET u == last.updates
  IN  last.n > 0 =>
        /\ (u.title = <<>> /\ u.subtitle = <<>>) =>
             TitleElements(opf) = TitleElements(pre)
        /\ (u.authors = <<>> /\ u.author = <<>>) =>
             CreatorElements(opf) = CreatorElements(pre)
        /\ u.identifier = <<>> =>
             IdentifierElements(opf) = IdentifierElements(pre)
        /\ u.language = <<>> => opf.meta.dcLanguage = pre.meta.dcLanguage
        /\ u.publisher = <<>> => opf.meta.dcPublisher = pre.meta.dcPublisher
        /\ u.date = <<>> => opf.meta.dcDate = pre.meta.dcDate
        /\ u.description = <<>> =>
             opf.meta.dcDescription = pre.meta.dcDescription
        /\ u.rights = <<>> => opf.meta.dcRights = pre.meta.dcRights
        /\ (~u.subjectsGiven /\ u.subjects = <<>>) =>
             opf.meta.dcSubject = pre.meta.dcSubject
        /\ u.series = <<>> => SeriesElements(opf) = SeriesElements(pre)

\* The title the update set asks for: "<title>: <subtitle>" or the title
ExpectedTitle(u) ==
  IF sanitizeMetadataString(u.subtitle) # <<>>
  THEN sanitizeMetadataString(u.title) \o <<":", " ">>
         \o sanitizeMetadataString(u.subtitle)
  ELSE sanitizeMetadataString(u.title)

\* C12: after a write that carries a title the document has exactly one
\* dc:title element and no title-type refinement, and the element's value is
\* "<title>: <subtitle>" when the sanitized subtitle is non-empty and the
\* sanitized title otherwise.
SingleCombinedTitle ==
  (last.n > 0 /\ last.updates.title # <<>>) =>
    /\ Len(opf.meta.dcTitle) = 1
    /\ opf.meta.dcTitle[1].val = ExpectedTitle(last.updates)
    /\ \A i \in 1..Len(opf.meta.meta) : opf.meta.meta[i].property # "title-type"

\* A document with two typed titles was given "Foo" and "A Tale"
SingleCombinedTitleWitness ==
  /\ last.n > 0
  /\ last.updates.title = V_title
  /\ last.updates.subtitle = V_subtitle
  /\ Len(pre.meta.dcTitle) = 2
  /\ \E i \in 1..Len(pre.meta.meta) : pre.meta.meta[i].property = "title-type"
  /\ Len(opf.meta.dcTitle) = 1
  /\ opf.meta.dcTitle[1].val = V_fooATale

\* C13: after a write that carries a subjects field, an empty list included,
\* the dc:subject list is the sanitized update list and nothing else.
SubjectsReplaced ==
  (last.n > 0 /\ last.updates.subjectsGiven) =>
    opf.meta.dcSubject =
      [i \in 1..Len(last.updates.subjects) |->
         sanitizeMetadataString(last.updates.subjects[i])]

\* creator-0, creator-1, ... as the claim spells them
CreatorIds == <<Id_creator0, Id_creator1>>

\* The number of meta elements with the property that refine the target
CountRefinements(doc, property, target) ==
  Cardinality({k \in 1..Len(doc.meta.meta) :
                 /\ doc.meta.meta[k].property = property
                 /\ doc.meta.meta[k].refines = target})

\* The file-as and role refinements of a document, in order
FileAsAndRoleRefinements(doc) ==
  SelectSeq(doc.meta.meta, LAMBDA m : m.property \in {"file-as", "role"})

\* C14: after a write with a non-empty authors array of length n the
\* dc:creator elements are the n (sanitized) names in order with ids
\* creator-0 .. creator-(n-1); on a document that is not version 2 each
\* creator has one file-as refinement if its author has a non-empty fileAs
\* and none otherwise, and one role refinement if its author has a role
\* other than "aut" and none otherwise; on a version 2 document the file-as
\* and role refinements are those it had.
AuthorsArrayWritten ==
  LET authors == last.updates.authors
      creators == opf.meta.dcCreator
  IN  (last.n > 0 /\ authors # <<>>) =>
        /\ Len(creators) = Len(authors)
        /\ \A i \in 1..Len(authors) :
             /\ creators[i].val = sanitizeMetadataString(authors[i].name)
             /\ creators[i].id = CreatorIds[i]
        /\ ~isEpub2(pre) =>
             \A i \in 1..Len(authors) :
               /\ CountRefinements(opf, "file-as", Hash(CreatorIds[i])) =
                    IF ~authors[i].isString /\ authors[i].fileAs # <<>>
                    THEN 1 ELSE 0
               /\ CountRefinements(opf, "role", Hash(CreatorIds[i])) =
                    IF /\ ~authors[i].isString
                       /\ authors[i].role # <<>>
                       /\ authors[i].role # Str_aut
                    THEN 1 ELSE 0
        /\ isEpub2(pre) =>
             FileAsAndRoleRefinements(opf) = FileAsAndRoleRefinements(pre)

\* A version 3 document whose creator-0 had a file-as and a role refinement
\* was given two authors: the first with a fileAs and the role aut, the
\* second with the role edt
AuthorsArrayWrittenWitness ==
  /\ last.n > 0
  /\ Len(last.updates.authors) = 2
  /\ ~isEpub2(pre)
  /\ CountRefinements(pre, "file-as", Hash(Id_creator0)) = 1
  /\ CountRefinements(pre, "role", Hash(Id_creator0)) = 1
  /\ CountRefinements(opf, "file-as", Hash(Id_creator0)) = 1
  /\ CountRefinements(opf, "role", Hash(Id_creator0)) = 0
  /\ CountRefinements(opf, "role", Hash(Id_creator1)) = 1
  /\ opf.meta.dcCreator[2].id = Id_creator1

\* C15: after a write with only the legacy author string the document has
\* exactly one dc:creator, its id is creator-0, and no file-as or role
\* refinement targets #creator-0.
LegacyAuthorHasNoRefinements ==
  (last.n > 0 /\ last.updates.authors = <<>> /\ last.updates.author # <<>>) =>
    /\ Len(opf.meta.dcCreator) = 1
    /\ opf.meta.dcCreator[1].id = Id_creator0
    /\ CountRefinements(opf, "file-as", Hash(Id_creator0)) = 0
    /\ CountRefinements(opf, "role", Hash(Id_creator0)) = 0

\* The two warnings
TitleWarningText == "Warning: EPUB requires a title (dc:title)"

IdentifierWarningText ==
  "Warning: EPUB requires at least one identifier (dc:identifier)"

\* The document has a dc:title element with a non-empty value
HasTitle(doc) ==
  \E i \in 1..Len(doc.meta.dcTitle) : doc.meta.dcTitle[i].val # <<>>


\* C16: the value writeEpub returns carries the written archive and a
\* warnings list, which holds the title warning when the document has no
\* title after the write and the identifier warning when it has no
\* identifier after the write.
WarningsReturned ==
  last.n > 0 =>
    /\ "nodebuffer" \in DOMAIN last.returned
    /\ "warnings" \in DOMAIN last.returned
    /\ ~HasTitle(opf) => TitleWarningText \in Elements(last.returned.warnings)
    /\ opf.meta.dcIdentifier = <<>> =>
         IdentifierWarningText \in Elements(last.returned.warnings)

\* C17: writeEpub raises the title warning exactly when the document has no
\* dc:title with a non-empty value after the write, and the identifier
\* warning exactly when the identifier list is empty after the write.
WarningsMatchDocument ==
  last.n > 0 =>
    /\ TitleWarningText \in Elements(last.warnings) <=> ~HasTitle(opf)
    /\ IdentifierWarningText \in Elements(last.warnings) <=>
         opf.meta.dcIdentifier = <<>>

\* ------------------------------------------------------------------------
\* SpecNormalize: the metadata form sent to /normalize again and again
\* ------------------------------------------------------------------------

\* The number of /normalize calls on one form
MaxNormalize == 2

D_plain == <<"A", " ", "b", "o", "o", "k">>
D_tagged == <<"<", "b", ">", "A", "<", "/", "b", ">", "<LF>", " ", "b", "o", "o", "k", " ">>
D_escapedTag == <<"&", "l", "t", ";", "b", "&", "g", "t", ";">>
D_escapedLt == <<"&", "a", "m", "p", ";", "l", "t", ";">>
D_escapedAmp == <<"&", "a", "m", "p", ";", "a", "m", "p", ";">>
D_lessThan == <<"1", " ", "<", " ", "2">>
Date_year == <<"2", "0", "2", "0">>
Date_iso == <<"2", "0", "2", "0", "-", "0", "5", "-", "1", "7">>
Date_yearMonth == <<"2", "0", "2", "0", "-", "0", "5">>
Date_badMonth == <<"1", "9", "9", "9", "-", "1", "3", "-", "4", "5">>
Date_approx == <<"1", "9", "9", "9", " ", "a", "p", "p", "r", "o", "x">>
Date_undated == <<"u", "n", "d", "a", "t", "e", "d">>
Lang_ENus == <<"E", "N", "-", "u", "s">>
Lang_xx == <<"x", "x">>
Lang_qqq == <<"q", "q", "q">>

MetadataFields == {"title", "subjects", "date", "description", "language"}

Forms ==
  {[title |-> title, subjects |-> subjects, date |-> date,
    description |-> description, language |-> language] :
     title \in {<<" ">> \o V_title},
     subjects \in {<<>>, <<V_paddedSubject, <<" ">>, V_subject, V_subject>>},
     date \in {<<>>, Date_year, Date_iso, Date_yearMonth, V_oldModified,
               Date_badMonth, Date_approx, Date_undated},
     description \in {<<>>, D_plain, D_tagged, D_escapedTag, D_escapedLt,
                      D_escapedAmp, D_lessThan},
     language \in {<<>>, V_lang, Lang_ENus, Lang_xx, Lang_qqq}}

InitNormalize ==
  /\ InitCore({Document(Package(Version_3, Id_uid), <<>>, <<>>, NoManifest)},
              {Path_opfInDir})
  /\ \E form \in Forms : normalized = [NoNormalize EXCEPT !.metadata = form]
  /\ languageCall = NoLanguage
  /\ ServerIdle

\* POST /normalize with the form, and the form filled with the reply: the
\* handler takes _warnings out of the record before it replies
Normalize ==
  /\ normalized.n < MaxNormalize
  /\ \E r \in {normalizeMetadata(normalized.metadata)} :
       normalized' = [n |-> normalized.n + 1,
                      before |-> normalized.metadata,
                      metadata |-> [f \in MetadataFields |-> r[f]],
                      warnings |-> r.warnings]
  /\ UNCHANGED coreVars
  /\ UNCHANGED languageCall
  /\ UNCHANGED serverVars

NextNormalize == Normalize

SpecNormalize == InitNormalize /\ [][NextNormalize]_vars

\* C18: normalizeMetadata is idempotent: normalizing a normalized record
\* gives the same record, field for field.
NormalizeIdempotent ==
  normalized.n >= 2 => normalized.metadata = normalized.before

\* ------------------------------------------------------------------------
\* The server: validateMetadata and the /upload and /download handlers
\* ------------------------------------------------------------------------

\* part_000 lines 31-44
MAX_LENGTHS ==
  [title |-> 500, subtitle |-> 500, author |-> 500, publisher |-> 500,
   identifier |-> 50, language |-> 20, date |-> 20, description |-> 10000,
   rights |-> 1000, series |-> 500, seriesIndex |-> 10, subject |-> 200]

\* part_000 lines 49-55
sanitizeString(value, maxLength) ==
  IF value = <<>> THEN <<>>
  ELSE RemoveChars(Substring0(Trim(value), maxLength), ControlChars)

\* array.slice(0, n)
Slice0(list, n) == SubSeq(list, 1, IF Len(list) < n THEN Len(list) ELSE n)

\* /^\d+(\.\d+)?$/
IsDecimalNumber(s) ==
  LET dot == IndexFrom(s, ".", 1)
  IN  IF dot = 0 THEN s # <<>> /\ AllDigits(s)
      ELSE /\ dot > 1 /\ dot < Len(s)
           /\ AllDigits(SubSeq(s, 1, dot - 1))
           /\ AllDigits(SubSeq(s, dot + 1, Len(s)))

\* part_000 lines 127-138: one author of the authors array
ValidateAuthor(author) ==
  IF author.isString
  THEN AuthorObject(sanitizeString(author.name, MAX_LENGTHS.author), <<>>, <<>>)
  ELSE AuthorObject(sanitizeString(author.name, MAX_LENGTHS.author),
                    sanitizeString(IF author.role # <<>> THEN author.role
                                   ELSE Str_aut, 20),
                    sanitizeString(author.fileAs, MAX_LENGTHS.author))

\* part_000 lines 60-141: validation.metadata for a metadata object; a field
\* the result does not carry is the empty sequence
validateMetadata(metadata) ==
  [title |-> sanitizeString(metadata.title, MAX_LENGTHS.title),
   subtitle |-> sanitizeString(metadata.subtitle, MAX_LENGTHS.subtitle),
   author |-> sanitizeString(metadata.author, MAX_LENGTHS.author),
   publisher |-> sanitizeString(metadata.publisher, MAX_LENGTHS.publisher),
   identifier |-> sanitizeString(metadata.identifier, MAX_LENGTHS.identifier),
   language |-> ToLowerCase(sanitizeString(metadata.language, MAX_LENGTHS.language)),
   date |-> sanitizeString(metadata.date, MAX_LENGTHS.date),
   description |-> sanitizeString(metadata.description, MAX_LENGTHS.description),
   rights |-> sanitizeString(metadata.rights, MAX_LENGTHS.rights),
   series |-> sanitizeString(metadata.series, MAX_LENGTHS.series),
   seriesIndex |-> IF IsDecimalNumber(Trim(metadata.seriesIndex))
                   THEN Trim(metadata.seriesIndex) ELSE <<>>,
   subjectsGiven |-> metadata.subjectsGiven,
   subjects |-> SelectSeq([i \in 1..Len(Slice0(metadata.subjects, 50)) |->
                             sanitizeString(metadata.subjects[i], MAX_LENGTHS.subject)],
                          LAMBDA v : v # <<>>),
   authors |-> SelectSeq([i \in 1..Len(Slice0(metadata.authors, 20)) |->
                            ValidateAuthor(metadata.authors[i])],
                         LAMBDA a : a.name # <<>>)]

\* The number of /upload requests and of /download requests the server gets
MaxUploads == 2
MaxDownloads == 2

\* The /download requests begun so far
DownloadsBegun ==
  LET RECURSIVE Sum(_)
      Sum(i) == IF i = 0 THEN 0 ELSE documents[i].requests + Sum(i - 1)
  IN  Sum(Len(documents))

\* part_000 lines 192-250, POST /upload: the file is parsed (readEpub), its
\* metadata and cover are read for the reply, and the parsed document is
\* stored under a fresh session id.  writes counts the writeEpub calls that
\* have mutated the document and requests the /download requests that took
\* it from the sessions map.
Upload(files) ==
  /\ Len(documents) < MaxUploads
  /\ \E file \in files :
       /\ documents' = Append(documents,
            [opf |-> file, zip |-> Archive(Path_opfInDir, file),
             opfPath |-> Path_opfInDir, writes |-> 0, requests |-> 0])
       /\ sessions' = sessions \cup {Len(documents) + 1}
       /\ extracted' = [called |-> TRUE, at |-> 0,
                        metadata |-> <<extractMetadata(file.meta)>>]
       /\ coverData' = [called |-> TRUE, at |-> 0,
                        item |-> ReaderCoverItem(file),
                        result |-> getCoverImage(Archive(Path_opfInDir, file),
                                                 file, Path_opfInDir)]
  /\ UNCHANGED <<opf, zip, opfPath, pre, last, normalized, languageCall, downloads, timers>>

\* The writeEpub call of a request on the document it holds: the document
\* and the archive are mutated in place
WriteSessionDocument(session, updates, coverBuffer) ==
  LET document == documents[session]
      r == writeEpub(document.zip, document.opfPath, document.opf, updates,
                     coverBuffer, Timestamp(document.writes + 1), FALSE)
  IN  [document EXCEPT !.opf = r.opf, !.zip = r.zip, !.writes = @ + 1]

\* part_000 lines 492-555, POST /download up to its first await: the session
\* is looked up, the metadata validated, and either the cover is handed to
\* optimizeCover (the handler waits) or writeEpub is called at once, which
\* mutates the document before it waits for the archive to be generated
DownloadBegin(metadatas, covers) ==
  /\ DownloadsBegun < MaxDownloads
  /\ \E session \in sessions, metadata \in metadatas, cover \in covers :
       \E sanitizedMetadata \in {validateMetadata(metadata)} :
         IF cover # <<>>
         THEN /\ downloads' = Append(downloads,
                   [session |-> session, metadata |-> sanitizedMetadata,
                    cover |-> cover, pc |-> "optimizeCover"])
              /\ documents' = [documents EXCEPT ![session].requests = @ + 1]
         ELSE /\ downloads' = Append(downloads,
                   [session |-> session, metadata |-> sanitizedMetadata,
                    cover |-> <<>>, pc |-> "generateAsync"])
              /\ documents' = [documents EXCEPT ![session] =
                   [WriteSessionDocument(session, sanitizedMetadata, <<>>)
                      EXCEPT !.requests = @ + 1]]
  /\ UNCHANGED coreVars
  /\ UNCHANGED <<normalized, languageCall, sessions, timers>>

\* part_000 lines 537-555: optimizeCover has returned, with a JPEG or, when
\* it failed, with the buffer it was given; writeEpub is called
DownloadWrite(optimized) ==
  /\ \E i \in 1..Len(downloads), jpeg \in optimized :
       /\ downloads[i].pc = "optimizeCover"
       /\ \E coverBuffer \in {<<jpeg>>, downloads[i].cover} :
            /\ documents' = [documents EXCEPT ![downloads[i].session] =
                 WriteSessionDocument(downloads[i].session,
                                      downloads[i].metadata, coverBuffer)]
            /\ downloads' = [downloads EXCEPT ![i].pc = "generateAsync",
                                              ![i].cover = coverBuffer]
  /\ UNCHANGED coreVars
  /\ UNCHANGED <<normalized, languageCall, sessions, timers>>

\* part_000 lines 559-565: the archive is generated; the handler sets the
\* timer that deletes the session and replies
DownloadEnd ==
  /\ \E i \in 1..Len(downloads) :
       /\ downloads[i].pc = "generateAsync"
       /\ timers' = timers \cup {downloads[i].session}
       /\ downloads' = [j \in 1..(Len(downloads) - 1) |->
                          IF j < i THEN downloads[j] ELSE downloads[j + 1]]
  /\ UNCHANGED coreVars
  /\ UNCHANGED <<normalized, languageCall, sessions, documents>>

\* part_000 line 560: the timer's callback, sessions.delete(sessionId)
SessionTimer ==
  /\ \E session \in timers :
       /\ sessions' = sessions \ {session}
       /\ timers' = timers \ {session}
  /\ UNCHANGED coreVars
  /\ UNCHANGED <<normalized, languageCall, documents, downloads>>

\* part_000 lines 170-183, cleanupExpiredSessions: the sessions that are
\* thirty minutes old go; which ones are is the clock's matter
CleanupExpiredSessions ==
  /\ \E expired \in SUBSET sessions :
       /\ expired # {}
       /\ sessions' = sessions \ expired
  /\ UNCHANGED coreVars
  /\ UNCHANGED <<normalized, languageCall, documents, downloads, timers>>

\* ------------------------------------------------------------------------
\* SpecSessions: uploads and downloads in every interleaving
\* ------------------------------------------------------------------------

UploadedFiles ==
  {Document(Package(Version_3, Id_uid), <<Entry_uuid>>, <<>>,
            Manifest(<<Item_nav, Item_myCover>>))}

DownloadMetadatas ==
  {[NoUpdates EXCEPT !.title = V_blank \o V_title,
                     !.authors = <<AuthorString(V_paddedAuthor)>>,
                     !.seriesIndex = V_index]}

InitSessions ==
  /\ InitCore({Document(Package(Version_3, Id_uid), <<>>, <<>>, NoManifest)},
              {Path_opfInDir})
  /\ normalized = NoNormalize
  /\ languageCall = NoLanguage
  /\ ServerIdle

NextSessions ==
  \/ Upload(UploadedFiles)
  \/ DownloadBegin(DownloadMetadatas, {<<>>, <<Bytes_png>>})
  \/ DownloadWrite({Bytes_jpeg})
  \/ DownloadEnd
  \/ SessionTimer
  \/ CleanupExpiredSessions

SpecSessions == InitSessions /\ [][NextSessions]_vars

\* C19: no document is mutated by two writeEpub calls; every call the
\* /download handler starts runs on a document no earlier call has mutated.
NoDocumentWrittenTwice ==
  \A i \in 1..Len(documents) : documents[i].writes <= 1

\* ------------------------------------------------------------------------
\* SpecLanguage: normalizeLanguageCode called on language tags
\* ------------------------------------------------------------------------

\* The call of normalizeLanguageCode (from extractMetadata, normalizeMetadata,
\* writeEpub or /validate-language) on the tag at hand
NormalizeLanguageCode ==
  /\ ~languageCall.called
  /\ \E r \in {normalizeLanguageCode(languageCall.code)} :
       languageCall' = [languageCall EXCEPT !.called = TRUE, !.result = <<r>>]
  /\ UNCHANGED coreVars
  /\ UNCHANGED normalized
  /\ UNCHANGED serverVars

\* Every key and every value of the table, tags outside it, and tags in
\* upper and mixed case, of one, two, three and four characters
LanguageBases ==
  {p[1] : p \in LANGUAGE_CODE_MAP_PAIRS} \cup
  {p[2] : p \in LANGUAGE_CODE_MAP_PAIRS} \cup
  {<<>>, <<"e">>, <<"x", "x">>, <<"q", "q", "q">>, <<"z", "x", "x">>,
   <<"E", "N">>, <<"E", "n", "G">>, <<"F", "R", "E">>, <<"e", "n", "g", "l">>,
   <<"1", "2">>, <<"1", "2", "3">>}

LanguageSuffixes ==
  {<<>>, <<"-">>, <<"-", "u", "s">>, <<"_", "G", "b">>,
   <<"-", "H", "a", "n", "t", "-", "T", "W">>}

LanguageCodes ==
  {pad \o base \o suffix \o pad :
     pad \in {<<>>, <<" ">>}, base \in LanguageBases, suffix \in LanguageSuffixes}

InitLanguage ==
  /\ InitCore({Document(Package(Version_3, Id_uid), <<>>, <<>>, NoManifest)},
              {Path_opfInDir})
  /\ normalized = NoNormalize
  /\ \E code \in LanguageCodes : languageCall = [NoLanguage EXCEPT !.code = code]
  /\ ServerIdle

NextLanguage == NormalizeLanguageCode

SpecLanguage == InitLanguage /\ [][NextLanguage]_vars

\* C26: normalizeLanguageCode returns a result for every tag, and the result
\* is the specified one: the empty tag gives code "" without a warning;
\* otherwise the code is the lower-cased base, replaced by its two-letter
\* equivalent when it is a three-letter key of the table, re-joined with the
\* upper-cased region when there is one; converted is set, with the
\* (trimmed) original echoed, exactly when a three-letter base was mapped;
\* the "could not convert" warning is given exactly when the original base
\* has three characters and no table entry; the "unknown code" warning
\* exactly when the resulting base has two characters and is not in the
\* valid set; and no result has both a warning and converted.
LanguageClassified ==
  languageCall.called =>
    LET code == languageCall.code
        r == languageCall.result[1]
        trimmed == Trim(code)
        base == SplitPart0(ToLowerCase(trimmed))
        region == ToUpperCase(SplitPart1(ToLowerCase(trimmed)))
        known == Len(base) = 3 /\ \E p \in LANGUAGE_CODE_MAP_PAIRS : p[1] = base
        resultBase ==
          IF known THEN (CHOOSE p \in LANGUAGE_CODE_MAP_PAIRS : p[1] = base)[2]
          ELSE base
    IN  IF code = <<>>
        THEN r.code = <<>> /\ r.warning = "" /\ ~r.converted
        ELSE /\ r.code = IF region = <<>> THEN resultBase
                         ELSE resultBase \o <<"-">> \o region
             /\ r.converted <=> known
             /\ r.converted => r.original = trimmed
             /\ (r.warning = "couldNotConvert") <=> (Len(base) = 3 /\ ~known)
             /\ (r.warning = "unknown") <=>
                  (Len(resultBase) = 2 /\ resultBase \notin VALID_BCP47_CODES)
             /\ ~(r.warning # "" /\ r.converted)

\* " ENG_Gb " is converted to "en-GB"
LanguageClassifiedWitness ==
  /\ languageCall.called
  /\ languageCall.code = <<" ", "E", "n", "G", "_", "G", "b", " ">>
  /\ languageCall.result[1].code = <<"e", "n", "-", "G", "B">>
  /\ languageCall.result[1].converted
  /\ languageCall.result[1].warning = ""

\* ------------------------------------------------------------------------
\* SpecTitles: documents with up to three title elements of every typing,
\* read by extractMetadata
\* ------------------------------------------------------------------------

Str_short == <<"s", "h", "o", "r", "t">>
Id_thirdTitle == <<"t", "3">>

\* The title element at each position, and the ways one can be typed: by a
\* title-type refinement "main", "subtitle" or "short", with an id and no
\* refinement, or without an id
TitleIds == <<Id_title, Id_subtitle, Id_thirdTitle>>
TitleValues == <<V_oldTitle, V_oldSubtitle, V_title>>
TitleTypings == {"main", "subtitle", "short", "untyped", "noId"}

TitleTypeValue(typing) ==
  CASE typing = "main" -> Str_main
    [] typing = "subtitle" -> Str_subtitle
    [] typing = "short" -> Str_short

TypedTitles(typings) ==
  [i \in 1..Len(typings) |->
     Title(TitleValues[i], IF typings[i] = "noId" THEN <<>> ELSE TitleIds[i])]

RECURSIVE TitleTypeMetas(_, _)
TitleTypeMetas(typings, i) ==
  IF i > Len(typings) THEN <<>>
  ELSE (IF typings[i] \in {"main", "subtitle", "short"}
        THEN <<Refinement("title-type", "", Hash(TitleIds[i]),
                          TitleTypeValue(typings[i]))>>
        ELSE <<>>) \o TitleTypeMetas(typings, i + 1)

TitleTypingLists ==
  UNION {[1..n -> TitleTypings] : n \in 0..3}

TitleDocs ==
  {[Document(Package(Version_3, Id_uid), <<>>, TitleTypeMetas(typings, 1),
             NoManifest)
      EXCEPT !.meta.dcTitle = TypedTitles(typings)] :
     typings \in TitleTypingLists}

InitTitles == InitWith(TitleDocs, {Path_opfInDir})

NextTitles == ExtractMetadata

SpecTitles == InitTitles /\ [][NextTitles]_vars

\* The value of the title-type refinement of the i-th title element, the
\* empty sequence when it has none
TitleTypeAt(doc, i) ==
  LET refinements ==
        SelectSeq(doc.meta.meta, LAMBDA m :
          /\ m.property = "title-type"
          /\ doc.meta.dcTitle[i].id # <<>>
          /\ m.refines = Hash(doc.meta.dcTitle[i].id))
  IN  IF refinements = <<>> THEN <<>> ELSE refinements[1].val

\* The positions of the title elements with the given title-type
TitlesTyped(doc, type) ==
  {i \in 1..Len(doc.meta.dcTitle) : TitleTypeAt(doc, i) = type}

Lowest(set) == CHOOSE i \in set : \A j \in set : i <= j

\* C27: extractMetadata returns as subtitle the text of an element typed
\* "subtitle" (none: the empty string), and as title the text of an element
\* typed "main" when there is one, otherwise the text of the first element
\* without a title-type (none: the empty string); an element with another
\* title-type, such as "short", is never the title.
TitleFollowsTypes ==
  extracted.called =>
    LET m == extracted.metadata[1]
        titles == opf.meta.dcTitle
        mains == TitlesTyped(opf, Str_main)
        subtitles == TitlesTyped(opf, Str_subtitle)
        untyped == TitlesTyped(opf, <<>>)
    IN  /\ IF subtitles = {} THEN m.subtitle = <<>>
           ELSE \E i \in subtitles : m.subtitle = titles[i].val
        /\ IF mains # {} THEN \E i \in mains : m.title = titles[i].val
           ELSE IF untyped # {} THEN m.title = titles[Lowest(untyped)].val
           ELSE m.title = <<>>

\* ------------------------------------------------------------------------
\* SpecMetas: documents whose refinements all have their target, as this
\* program writes them and as other tools do, written with series, authors,
\* identifier and title updates and read back
\* ------------------------------------------------------------------------

Id_c01 == <<"c", "0", "1">>

\* The metas of a version 3 document this program wrote: refinements of
\* "#creator-7" and the series triple under id "collection"
WrittenMetas ==
  <<Refinement("title-type", "", Hash(Id_title), Str_main),
    Refinement("file-as", "", Hash(Id_oldCreator), V_fileAs),
    MetaElement("belongs-to-collection", "", "", <<>>, <<>>, Str_collection, V_oldSeries),
    Refinement("collection-type", "", Hash(Str_collection), Str_series),
    Refinement("group-position", "", Hash(Str_collection), V_index),
    Refinement("dcterms:modified", "", <<>>, V_oldModified)>>

\* The metas of a version 3 document of another tool: the creator has id
\* "author1", the identifier "refined" is typed by a refinement, the
\* collection has id "c01" and an identifier of its own, and there are two
\* modified timestamps
ForeignMetas ==
  <<Refinement("title-type", "", Hash(Id_title), Str_main),
    Refinement("file-as", "", Hash(Id_author), V_fileAs),
    Refinement("role", "marc:relators", Hash(Id_author), V_edt),
    Refinement("identifier-type", "onix:codelist5", Hash(Id_refined), Str_06),
    MetaElement("belongs-to-collection", "", "", <<>>, <<>>, Id_c01, V_oldSeries),
    Refinement("collection-type", "", Hash(Id_c01), Str_series),
    Refinement("group-position", "", Hash(Id_c01), V_index),
    Refinement("dcterms:identifier", "", Hash(Id_c01), V_uuid),
    Refinement("dcterms:modified", "", <<>>, V_oldModified),
    Refinement("dcterms:modified", "", <<>>, V_oldModified)>>

\* The series as calibre writes it
CalibreMetas ==
  <<NamedMeta("calibre:series", V_oldSeries),
    NamedMeta("calibre:series_index", V_index)>>

ForeignDocument ==
  [Document(Package(Version_3, Id_uid), <<Entry_uuid, Entry_refined>>,
            ForeignMetas, NoManifest)
     EXCEPT !.meta.dcCreator = <<Creator(V_editor, Id_author, <<>>)>>]

MetaDocs ==
  {Document(Package(Version_2, Id_uid), <<Entry_uuid>>, <<>>, NoManifest),
   Document(Package(Version_2, Id_uid), <<Entry_uuid>>, CalibreMetas, NoManifest),
   Document(Package(Version_3, Id_uid), <<Entry_uuid>>, <<>>, NoManifest),
   Document(Package(Version_3, Id_uid), <<Entry_uuid>>, WrittenMetas, NoManifest),
   Document(Package(Version_3, Id_uid), <<Entry_uuid>>,
            WrittenMetas \o CalibreMetas, NoManifest),
   ForeignDocument}

\* A string with control characters around and inside it
Dirty(value) == <<"<SOH>">> \o value \o <<"<VT>">> \o value \o <<"<DEL>">>

\* Every string of the update set carries control characters
DirtyUpdates ==
  [NoUpdates EXCEPT
     !.title = Dirty(V_title), !.subtitle = Dirty(V_subtitle),
     !.publisher = Dirty(V_publisher), !.date = Dirty(Date_year),
     !.description = Dirty(D_plain), !.rights = Dirty(V_publisher),
     !.language = Dirty(V_lang),
     !.authors = <<AuthorObject(Dirty(V_author), Dirty(V_edt), Dirty(V_fileAs))>>,
     !.identifier = <<"<SOH>">> \o V_isbn13 \o <<"<DEL>">>,
     !.subjects = <<Dirty(V_subject)>>, !.subjectsGiven = TRUE,
     !.series = Dirty(V_series), !.seriesIndex = Dirty(V_index)]

MetaUpdateSets ==
  {NoUpdates,
   [NoUpdates EXCEPT !.series = V_series],
   [NoUpdates EXCEPT !.series = V_series, !.seriesIndex = V_index],
   AuthorsUpdates(<<AuthorObject(V_author, V_edt, V_fileAs)>>),
   [NoUpdates EXCEPT !.author = V_author],
   IdentifierUpdates(V_isbn13),
   TitleUpdates(V_title, V_subtitle),
   DirtyUpdates}

InitMetas == InitWith(MetaDocs, {Path_opfInDir})

NextMetas ==
  \/ WriteEpub(MetaUpdateSets, {<<>>}, {FALSE})
  \/ ExtractMetadata

SpecMetas == InitMetas /\ [][NextMetas]_vars

\* The metas of a document with the given property
MetasWithProperty(doc, property) ==
  SelectSeq(doc.meta.meta, LAMBDA m : m.property = property)

\* The ids of the belongs-to-collection elements of a document
CollectionIds(doc) ==
  {m.id : m \in {e \in Elements(MetasWithProperty(doc, "belongs-to-collection")) :
                   e.id # <<>>}}

\* C23: after a write on a version 3 document there is at most one
\* belongs-to-collection element; when the write supplies a series name
\* there is exactly one, with id "collection" and the (sanitized) name,
\* exactly one collection-type refinement, "series", targeting it, and a
\* group-position refinement exactly when a series index is supplied, and
\* no refinement targeting a collection element of the document before
\* the write is left, other than the ones just written.
SeriesReplaced ==
  (last.n > 0 /\ ~isEpub2(pre)) =>
    LET collections == MetasWithProperty(opf, "belongs-to-collection")
        types == MetasWithProperty(opf, "collection-type")
        positions == MetasWithProperty(opf, "group-position")
        supplied == last.updates.series # <<>>
    IN  /\ Len(collections) <= 1
        /\ supplied =>
             /\ Len(collections) = 1
             /\ collections[1].id = Str_collection
             /\ collections[1].val = sanitizeMetadataString(last.updates.series)
             /\ Len(types) = 1
             /\ types[1].refines = Hash(Str_collection)
             /\ types[1].val = Str_series
             /\ Len(positions) = IF last.updates.seriesIndex # <<>> THEN 1 ELSE 0
             /\ \A i \in 1..Len(positions) :
                  positions[i].refines = Hash(Str_collection)
             /\ \A id \in CollectionIds(pre) :
                  \A m \in Elements(opf.meta.meta) :
                    m.refines = Hash(id) =>
                      /\ id = Str_collection
                      /\ m.property \in {"collection-type", "group-position"}

\* C24: after every write on a document whose version does not start with
\* "2" the metadata block holds exactly one dcterms:modified element,
\* however many it held before and however many writes came before.
ExactlyOneModified ==
  (last.n > 0 /\ ~isEpub2(opf)) =>
    Len(MetasWithProperty(opf, "dcterms:modified")) = 1

\* The second write in a row on a document that came with two timestamps
ExactlyOneModifiedWitness ==
  /\ last.n = 2
  /\ ~isEpub2(opf)
  /\ last.previous # <<>>
  /\ Len(MetasWithProperty(last.previous[1].pre, "dcterms:modified")) = 2
  /\ MetasWithProperty(pre, "dcterms:modified")[1].val = Timestamp(1)
  /\ Len(MetasWithProperty(opf, "dcterms:modified")) = 1
  /\ MetasWithProperty(opf, "dcterms:modified")[1].val = Timestamp(2)

\* A string the sanitizer could have returned: no control character other
\* than tab, newline and carriage return, and at most 10,000 characters
Clean(value) ==
  /\ Len(value) <= DefaultMaxLength
  /\ \A i \in 1..Len(value) : value[i] \notin ControlChars

\* Every string of the metadata block is clean
AllClean(doc) ==
  /\ \A t \in Elements(doc.meta.dcTitle) : Clean(t.val)
  /\ \A c \in Elements(doc.meta.dcCreator) : Clean(c.val) /\ Clean(c.role)
  /\ \A id \in Elements(doc.meta.dcIdentifier) : Clean(id.val)
  /\ \A f \in {"dcSubject", "dcPublisher", "dcDate", "dcDescription",
                "dcRights", "dcLanguage"} :
       \A v \in Elements(doc.meta[f]) : Clean(v)
  /\ \A m \in Elements(doc.meta.meta) : Clean(m.val) /\ Clean(m.content)

\* C25: every string a write puts into the document from the update set
\* has passed the sanitizer: the documents start without control characters,
\* so after a write no string of the metadata block has one or is longer
\* than 10,000 characters.
WrittenStringsSanitized ==
  last.n > 0 => AllClean(opf)

\* The ids of the elements of the metadata block
ElementIds(doc) ==
  {e.id : e \in Elements(doc.meta.dcTitle) \cup Elements(doc.meta.dcCreator)
               \cup Elements(doc.meta.dcIdentifier)} \cup
  {m.id : m \in Elements(doc.meta.meta)}

\* Every refinement targets the id of an element of the metadata block
NoDanglingRefinement(doc) ==
  \A m \in Elements(doc.meta.meta) :
    m.refines # <<>> =>
      \E id \in ElementIds(doc) : id # <<>> /\ m.refines = Hash(id)

\* C29: when every refinement of the document has its target before a
\* write, every refinement has its target after it: none is left pointing
\* at the id of a replaced creator, title, identifier or collection.
RefinementsKeepTargets ==
  (last.n > 0 /\ NoDanglingRefinement(pre)) => NoDanglingRefinement(opf)

\* C30: after a write that supplies a series name and a series index,
\* extractMetadata on the written document returns the (sanitized) name as
\* series and the index as seriesIndex, on either version.
SeriesReadBack ==
  (/\ extracted.called
   /\ extracted.at = last.n
   /\ last.n > 0
   /\ sanitizeMetadataString(last.updates.series) # <<>>
   /\ last.updates.seriesIndex # <<>>) =>
    /\ extracted.metadata[1].series = sanitizeMetadataString(last.updates.series)
    /\ extracted.metadata[1].seriesIndex = last.updates.seriesIndex

====
